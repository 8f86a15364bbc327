-------------------------- MODULE MCRemoteControl --------------------------
(* Instance of RemoteControl for TLC: two clients, one with two streams. *)
EXTENDS RemoteControl, TLC
CONSTANTS c1, c2, s1, s2, s3

MCClients  == {c1, c2}
MCStreams  == {s1, s2, s3}
MCClientOf == s1 :> c1 @@ s2 :> c2 @@ s3 :> c1

Initialize(s, n) == [kind |-> "initialize", stream |-> s, seq |-> n, segment |-> 0, count |-> 1]
Message(s, n)    == [kind |-> "message", stream |-> s, seq |-> n, segment |-> 0, count |-> 1]
Chunk(s, n, k)   == [kind |-> "chunk", stream |-> s, seq |-> n, segment |-> k, count |-> 2]
Closed(s)        == [kind |-> "closed", stream |-> s, seq |-> 0, segment |-> 0, count |-> 1]

\* Messages and a closed stream; a segmented message, whole and cut in two by
\* another client or by the client's other stream; a second initialize; a
\* message after the close; two clients.
MCLogs == {
    <<Initialize(s1, 1), Message(s1, 2), Message(s1, 3), Closed(s1)>>,
    <<Initialize(s1, 1), Chunk(s1, 2, 0), Chunk(s1, 2, 1), Message(s1, 3)>>,
    <<Initialize(s1, 1), Chunk(s1, 2, 0), Message(s2, 1), Chunk(s1, 2, 1), Message(s1, 3)>>,
    <<Initialize(s1, 1), Chunk(s1, 2, 0), Chunk(s3, 1, 0), Chunk(s1, 2, 1), Message(s1, 3)>>,
    <<Initialize(s1, 1), Message(s1, 2), Initialize(s1, 3), Message(s1, 4)>>,
    <<Initialize(s1, 1), Closed(s1), Message(s1, 2)>>,
    <<Initialize(s1, 1), Initialize(s2, 1), Message(s1, 2)>> }
=============================================================================
