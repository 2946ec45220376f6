------------------------------- MODULE MCWeb -------------------------------
(***************************************************************************)
(* The WebSocket and web servers with the clients of Sockets, and the      *)
(* conversions they use, applied to every text over Alphabet up to         *)
(* MaxText characters (the program "codec").                               *)
(***************************************************************************)
EXTENDS WebSocket, Web, Codec

CONSTANTS
    Alphabet, MaxText,
    Quiet               \* bound: a client that sends one message at most

ASSUME QuietAssumption == Quiet \in Clients

Texts == UNION {[1..n -> Alphabet] : n \in 0..MaxText}

\* Bytes for frames: more than the mask has, a zero among them.
SomePayloads == {<<Bits(7), Bits(0), Bits(255), Bits(130), Bits(9)>>}
SomeMasks == {<<Bits(7), Bits(200), Bits(0), Bits(129)>>}
SomeBytes == {0, 32, 37, 43, 65, 255}

CodecInit == \E text \in Texts : Started("codec", [text |-> text, done |-> FALSE])

CodecStep ==
    /\ prog = "codec" /\ ~mem.done
    /\ mem' = [text |-> mem.text, done |-> TRUE, base64 |-> Base64Encode(mem.text),
               url |-> UrlEncode(mem.text), pieces |-> Split(mem.text, Space)]
    /\ UNCHANGED <<prog, k, ready, pc, cur>>

\* Bound: where descriptors do not matter there is one.
Init == \/ WebSocketInit /\ (prog = "websocketpp" => k.limit = 1)
        \/ WebInit
        \/ CodecInit /\ k.limit = 1

\* Of two clients one sends at most half of the messages; it is Quiet.
Next == \/ prog # "codec" /\ ClientStep /\ k'.sent[Quiet] <= 1
        \/ WebSocketStep \/ WebStep \/ CodecStep

Spec == Init /\ [][Next]_vars /\ WF_vars(WebSocketStep) /\ WF_vars(WebStep)

-----------------------------------------------------------------------------
AnsweredUpTo(c) == IF k.out[c] = <<>> THEN 0 ELSE k.out[c][Len(k.out[c])].last

\* Once greeted, a client gets an answer to every frame, or to the one it was read
\* behind in one recv: an edge is never lost between the answer and the wait for
\* what comes next.
FramesAnswered ==
    \A c \in Clients : \A n \in 1..MaxSends :
        prog = "websocket" /\ k.out[c] # <<>> /\ k.sent[c] >= n
            ~> prog = "websocket" /\ (k.ended[c] # "open" \/ AnsweredUpTo(c) >= n)

\* A connection that the client has given up is closed in the end (one that
\* waits for the upgrade request may miss the edge that says so).
ConnectionsEnd ==
    \A c \in Clients :
        (/\ prog \in {"web", "eventweb"} \/ (prog = "websocket" /\ k.out[c] # <<>>)
         /\ k.ended[c] # "open" /\ FdOf(c) # {})
            ~> c \in k.closed \/ pc \in {"crashed", "stopped"}

\* Base64 and percent decoding give back what was encoded, for texts of the bytes
\* chosen and every length of the last group.  The pieces of a split hold no delimiter, and
\* joined again are the text: empty ones, at either end and between two
\* delimiters, are pieces as well.
CodecsInvert ==
    prog = "codec" /\ mem.done =>
        /\ Base64Decode(mem.base64) = mem.text
        /\ UrlDecode(mem.url) = mem.text
        /\ Len(mem.base64) % 4 = 0
        /\ mem.text # <<>> =>
               FlattenSeq([j \in 1..Len(mem.pieces) |-> Append(mem.pieces[j], Space)])
                   = Append(mem.text, Space)
        /\ \A j \in 1..Len(mem.pieces) : \A i \in 1..Len(mem.pieces[j]) :
               mem.pieces[j][i] # Space
=============================================================================
