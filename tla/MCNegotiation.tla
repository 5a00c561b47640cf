---------------------------- MODULE MCNegotiation ----------------------------
(* Negotiation with a renderer on one device and displays on it and off,   *)
(* and the wire with a protocol that has a message of every shape.         *)
EXTENDS Negotiation, Codec

CONSTANTS d1, d2, A, L

Entry(m, n) == [modifier |-> m, planes |-> n]
Here == [uuid |-> "gpu0", node |-> Unknown]
There == [uuid |-> "gpu1", node |-> Unknown]
CapsOf(formats, id) == PeerCaps(formats, id, {Binary, Timeline}, {}, {})

MCRendererCaps == CapsOf(<<<<Entry(L, 1), Entry(A, 1)>>>>, Here)
MCDisplayCaps ==
  (d1 :> CapsOf(<<<<Entry(A, 1), Entry(L, 1)>>>>, Here)) @@
  (d2 :> CapsOf(<<<<Entry(L, 1)>>>>, There))
MCPossible == {<<1, A>>, <<1, L>>}
MCImportable == (d1 :> {<<1, A>>, <<1, L>>}) @@ (d2 :> {<<1, L>>})

\* Two displays that import what they advertise, and one leaves;
\* two that stay and refuse what they like; one display with tasks that race.
Bounds(ds, n, racing, allocated, surely, imported) ==
  [displays |-> ds, departures |-> n, racers |-> racing, pools |-> allocated,
   sure |-> surely, sureImports |-> imported]
MCScenes ==
  {Bounds({d1, d2}, 1, 1, 3, MCPossible, MCPossible),
   Bounds({d1, d2}, 0, 1, 4, MCPossible, {}),
   Bounds({d1}, 0, 2, 6, {}, {})}

\* Lists of up to four entries in two fourccs, and every entry of a list has a
\* modifier and a plane count of its own: an entry out of its place is seen.
MCLists ==
  {[i \in DOMAIN fourccs |-> [fourcc |-> fourccs[i], modifier |-> order[i],
                              planes |-> 5 - order[i]]] :
     fourccs \in BoundedSeq({1, 2}, 4), order \in Permutations(1..4)}

Arg(t) == [type |-> t, element |-> "none"]
ArrayOf(t) == [type |-> "array", element |-> t]
NoFds == [kind |-> "none"]
MCProtocol ==
  (1 :> [way |-> "event", args |-> <<Arg("u32"), Arg("u32"), ArrayOf("u64")>>,
         fds |-> [kind |-> "product", fields |-> <<1, 2>>]]) @@
  (2 :> [way |-> "event_in", args |-> <<Arg("string"), Arg("kv_list")>>, fds |-> NoFds]) @@
  (3 :> [way |-> "event", args |-> <<Arg("i32"), Arg("rect"), Arg("i64")>>,
         fds |-> [kind |-> "fixed", count |-> 1]]) @@
  (9 :> [way |-> "event", args |-> <<ArrayOf("string")>>, fds |-> NoFds]) @@
  (10 :> [way |-> "event", args |-> <<>>, fds |-> NoFds])

\* The bytes of a text are 1 to 3; one list is too long for a frame.
MCPayloads ==
  (1 :> {<<2, 1, <<70000, 3>>>>, <<0, 1, <<>>>>}) @@
  (2 :> {<<<<>>, <<>>>>, <<<<1, 2, 3>>, <<<<<<3>>, <<1, 2, 3, 1>>>>>>>>}) @@
  (3 :> {<<-5, <<0, 1, 2, 3>>, -70000>>}) @@
  (9 :> {<<[i \in 1..n |-> <<1, 2, 3, 1>>]>> : n \in {1, 6}}) @@
  (10 :> {<<>>})

\* What the daemon or a peer writes, in Rust or in C, reaches a peer in either
\* language as it was sent, or not at all: every shape of message, two on one
\* stream, with descriptors, in pieces and broken off (waywallen_display_v1.xml:20
\* to 30, the generated encoders and decoders, send_event and recv_event).
MessagesSurvive == Init => AllArrive
=============================================================================
