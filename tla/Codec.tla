-------------------------------- MODULE Codec --------------------------------
(***************************************************************************)
(* The wire between the daemon and its peers: which declarations of a      *)
(* protocol the generator takes (tools/wayproto-gen/src/parser.rs), the    *)
(* encoders and decoders it writes in Rust and in C (codegen_rust.rs,      *)
(* codegen_c.rs), and the frames that carry a message and its descriptors  *)
(* over a stream socket (ipc/uds.rs, display/proto/codec.rs).              *)
(*                                                                         *)
(* A byte has Base values, 256 in the code; the widths are the code's.     *)
(* A float is its bits, and a text is what fits in seven bits.             *)
(***************************************************************************)
EXTENDS Integers, Sequences, SequencesExt, FiniteSets

CONSTANTS
  Base,      \* values of a byte
  MaxFds,    \* MAX_FDS_PER_MSG
  Protocol,  \* per opcode its direction and the attributes of its <arg>s and <fds>
  Payloads   \* per opcode the arguments it is sent with

ASSUME CodecAssumption ==
  /\ Base \in Nat /\ Base > 1 /\ Base % 2 = 0
  /\ MaxFds \in Nat
  /\ DOMAIN Payloads = DOMAIN Protocol

Languages == {"rust", "c"}

-----------------------------------------------------------------------------
(* Declarations.                                                           *)

Width == [u32 |-> 4, i32 |-> 4, f32 |-> 4, u64 |-> 8, i64 |-> 8, f64 |-> 8]
Scalars == DOMAIN Width
Plain == Scalars \cup {"string", "rect", "kv_list"}
Of(kind, elem) == [kind |-> kind, elem |-> elem]

\* The type an <arg> declares: none when the parser refuses it.
ParseArg(attrs) ==
  IF attrs.type = "array"
  THEN {Of("array", e) : e \in {attrs.element} \cap (Plain \ {"kv_list"})}
  ELSE {Of(t, "none") : t \in {attrs.type} \cap Plain}

\* No descriptors, a number of them, or a product of arguments.
ParseFds(attrs) ==
  CASE attrs.kind = "fixed"   -> attrs.count \in Nat
    [] attrs.kind = "product" -> attrs.fields # <<>>
    [] OTHER                  -> attrs.kind = "none"

\* What goes to a peer is all <request>s or all <event_in>s.
ParseProtocol(p) ==
  /\ Cardinality({p[op].way : op \in DOMAIN p} \ {"event"}) <= 1
  /\ \A op \in DOMAIN p :
       /\ op < Base ^ 2
       /\ p[op].way \in {"request", "event_in", "event"}
       /\ ParseFds(p[op].fds)
       /\ \A i \in DOMAIN p[op].args : ParseArg(p[op].args[i]) # {}

TypesOf(op) ==
  [i \in DOMAIN Protocol[op].args |-> CHOOSE t \in ParseArg(Protocol[op].args[i]) : TRUE]

\* The generators panic at an array of rects, which the parser takes.
Generates(p) ==
  \A op \in DOMAIN p : \A i \in DOMAIN p[op].args :
    Of("array", "rect") \notin ParseArg(p[op].args[i])

\* The product of u32s as u64, cut to u32.
ExpectedFds(op, values) ==
  LET fds == Protocol[op].fds
  IN  CASE fds.kind = "none"    -> 0
        [] fds.kind = "fixed"   -> fds.count
        [] fds.kind = "product" ->
             FoldLeft(LAMBDA n, i : n * values[i], 1, fds.fields) % (Base ^ 4)

-----------------------------------------------------------------------------
(* Writers: the bytes each appends.  They are a multiple of four, so the   *)
(* buffer is padded where what was appended is.                            *)

LittleEndian(v, n) == [i \in 1..n |-> (v \div (Base ^ (i - 1))) % Base]
TwosComplement(v, n) == IF v < 0 THEN v + Base ^ n ELSE v

PutNumber(t, v) == LittleEndian(TwosComplement(v, Width[t]), Width[t])
Pad4(bytes) == bytes \o [i \in 1..((4 - (Len(bytes) % 4)) % 4) |-> 0]

\* In C a string ends at its first NUL.
Terminated(s) ==
  IF \E i \in DOMAIN s : s[i] = 0
  THEN SubSeq(s, 1, (CHOOSE i \in DOMAIN s : s[i] = 0 /\ \A j \in 1..(i - 1) : s[j] # 0) - 1)
  ELSE s
Unpadded(s) == PutNumber("u32", Len(s) + 1) \o s \o <<0>>
PutStringUnpadded(s) == Unpadded(s)
PutString(s) == Pad4(Unpadded(s))

PutPair(kv) == PutString(kv[1]) \o PutString(kv[2])
PutRect(r) == FlattenSeq([i \in 1..4 |-> PutNumber("f32", r[i])])
PutEach(elem, vs) ==
  LET one(v) == CASE elem = "pair"   -> PutPair(v)
                  [] elem = "string" -> PutString(v)
                  [] elem \in Scalars -> PutNumber(elem, v)
  IN  PutNumber("u32", Len(vs)) \o FlattenSeq([i \in DOMAIN vs |-> one(vs[i])])

\* What an array or a kv_list holds.
Element(t) == IF t.kind = "kv_list" THEN "pair" ELSE t.elem

Put(t, v) ==
  CASE t.kind \in Scalars   -> PutNumber(t.kind, v)
    [] t.kind = "string"    -> PutString(v)
    [] t.kind = "rect"      -> PutRect(v)
    [] OTHER                -> PutEach(Element(t), v)

Encode(op, values) == FlattenSeq([i \in DOMAIN values |-> Put(TypesOf(op)[i], values[i])])

-----------------------------------------------------------------------------
(* Readers: where each stops in the body and what it has read, or nothing  *)
(* when it fails.                                                          *)

Reads(pos, val) == {[pos |-> pos, val |-> val]}

Number(bytes) ==
  FoldLeft(LAMBDA n, i : n + bytes[i] * Base ^ (i - 1), 0, [i \in DOMAIN bytes |-> i])
Signed(u, n) == IF u >= (Base ^ n) \div 2 THEN u - Base ^ n ELSE u

GetNumber(body, pos, t) ==
  LET n == Width[t]
      u == Number(SubSeq(body, pos + 1, pos + n))
  IN  IF Len(body) - pos < n THEN {}
      ELSE Reads(pos + n, IF t \in {"i32", "i64"} THEN Signed(u, n) ELSE u)

\* Rust insists on UTF-8.
IsText(s) == \A i \in DOMAIN s : s[i] < Base \div 2

\* len counts the NUL.
TextAt(lang, body, pos, len) ==
  LET padded == ((len + 3) \div 4) * 4
      s == SubSeq(body, pos + 1, pos + len - 1)
  IN  IF \/ len = 0
         \/ Len(body) - pos < padded
         \/ body[pos + len] # 0
         \/ lang = "rust" /\ ~IsText(s)
      THEN {}
      ELSE Reads(pos + padded, IF lang = "c" THEN Terminated(s) ELSE s)
GetString(lang, body, pos) ==
  UNION {TextAt(lang, body, len.pos, len.val) : len \in GetNumber(body, pos, "u32")}

\* One value after the other, up to the first that fails.
Then(before, next) ==
  {[pos |-> n.pos, val |-> Append(before.val, n.val)] : n \in next}

GetPair(lang, body, pos) ==
  UNION {{[pos |-> v.pos, val |-> <<k.val, v.val>>] : v \in GetString(lang, body, k.pos)} :
           k \in GetString(lang, body, pos)}
GetRect(body, pos) ==
  FoldLeft(LAMBDA rs, i : UNION {Then(r, GetNumber(body, r.pos, "f32")) : r \in rs},
           Reads(pos, <<>>), <<1, 2, 3, 4>>)

GetEach(lang, body, pos, elem) ==
  LET one(at) == CASE elem = "pair"   -> GetPair(lang, body, at)
                   [] elem = "string" -> GetString(lang, body, at)
                   [] elem \in Scalars -> GetNumber(body, at, elem)
      all(count) == FoldLeft(LAMBDA rs, i : UNION {Then(r, one(r.pos)) : r \in rs},
                             Reads(count.pos, <<>>), [i \in 1..count.val |-> i])
  IN  UNION {all(count) : count \in GetNumber(body, pos, "u32")}

Get(lang, body, pos, t) ==
  CASE t.kind \in Scalars -> GetNumber(body, pos, t.kind)
    [] t.kind = "string"  -> GetString(lang, body, pos)
    [] t.kind = "rect"    -> GetRect(body, pos)
    [] OTHER              -> GetEach(lang, body, pos, Element(t))

\* Every argument, and nothing after them.
Decode(lang, op, body) ==
  LET all == FoldLeft(LAMBDA rs, t : UNION {Then(r, Get(lang, body, r.pos, t)) : r \in rs},
                      Reads(0, <<>>), TypesOf(op))
  IN  IF op \in DOMAIN Protocol THEN {r.val : r \in {r \in all : r.pos = Len(body)}} ELSE {}

-----------------------------------------------------------------------------
(* Frames.  A stream is a sequence of bytes, and the first byte of a frame *)
(* carries its descriptors.                                                *)

HeaderSize == 4
Message(op, values, fds) == [op |-> op, values |-> values, fds |-> fds]

\* The daemon checks the descriptors of what it sends, and the length.
WriteFramed(op, body, fds) ==
  LET total == HeaderSize + Len(body)
      framed == LittleEndian(op, 2) \o LittleEndian(total, 2) \o body
  IN  [i \in DOMAIN framed |-> [byte |-> framed[i], fds |-> IF i = 1 THEN fds ELSE <<>>]]

Sendable(m) ==
  /\ Len(m.fds) <= MaxFds
  /\ Len(m.fds) = ExpectedFds(m.op, m.values)
  /\ HeaderSize + Len(Encode(m.op, m.values)) < Base ^ 2

Transmit(m) == WriteFramed(m.op, Encode(m.op, m.values), m.fds)

\* recvmsg hands over some bytes and the descriptors that came with them,
\* until the header is whole.
Harvest(stream, pieces) ==
  LET upTo[k \in 0..Len(pieces)] == IF k = 0 THEN 0 ELSE upTo[k - 1] + pieces[k]
  IN  FlattenSeq([i \in 1..upTo[Len(pieces)] |-> stream[i].fds])

Bytes(stream, first, last) ==
  LET part == SubSeq(stream, first, last) IN [i \in DOMAIN part |-> part[i].byte]

\* The first frame, and the rest of the stream; nothing when it ends early or
\* when the length is wrong.
Framed(stream) ==
  IF Len(stream) < HeaderSize THEN {}
  ELSE {[op   |-> Number(Bytes(stream, 1, 2)),
         body |-> Bytes(stream, HeaderSize + 1, total),
         rest |-> SubSeq(stream, total + 1, Len(stream))] :
          total \in {n \in {Number(Bytes(stream, 3, HeaderSize))} : n \in HeaderSize..Len(stream)}}

\* What is received; nothing when it does not decode or the descriptors that
\* came with it are too few or too many.
Receive(lang, stream, pieces) ==
  UNION {{[message |-> m, rest |-> f.rest] :
            m \in {m \in {Message(f.op, values, Harvest(stream, pieces)) :
                            values \in Decode(lang, f.op, f.body)} :
                    Len(m.fds) = ExpectedFds(m.op, m.values)}} :
           f \in Framed(stream)}

\* A peer reads frame after frame, and gives up at the first error.
ReceiveUpTo(n, lang, stream, pieces) ==
  LET next(s) ==
        LET r == Receive(lang, s.rest, pieces)
        IN  IF ~s.open \/ r = {} THEN {[s EXCEPT !.open = FALSE]}
            ELSE {[open |-> TRUE, rest |-> x.rest, got |-> Append(s.got, x.message)] : x \in r}
      last == FoldLeft(LAMBDA ss, i : UNION {next(s) : s \in ss},
                       {[open |-> TRUE, rest |-> stream, got |-> <<>>]}, [i \in 1..n |-> i])
  IN  {s.got : s \in last}

-----------------------------------------------------------------------------
(* What the wire promises.                                                 *)

\* The ways recvmsg may hand over a header.
Pieces == {p \in UNION {[1..k -> 1..HeaderSize] : k \in 1..HeaderSize} :
             FoldLeft(LAMBDA a, b : a + b, 0, p) = HeaderSize}

Messages ==
  UNION {{m \in {Message(op, values, [i \in 1..n |-> <<op, i>>]) :
                   values \in Payloads[op], n \in 0..MaxFds} :
            Sendable(m)} : op \in DOMAIN Protocol}

\* Two messages one after the other, whole, in order and each with its own
\* descriptors, however the header is cut up; of a stream that breaks off, the
\* messages before the break.
Arrive(lang, m, n, cut, stream) ==
  LET before(k) == SubSeq(<<m, n>>, 1,
        IF k < cut THEN 0 ELSE IF k < Len(stream) THEN 1 ELSE 2)
      cuts(k) == IF k = Len(stream) THEN Pieces ELSE {<<HeaderSize>>}
  IN  \A k \in DOMAIN stream : \A pieces \in cuts(k) :
        ReceiveUpTo(3, lang, SubSeq(stream, 1, k), pieces) = {before(k)}

AllArrive ==
  /\ ParseProtocol(Protocol) /\ Generates(Protocol)
  /\ \A m, n \in Messages : \A stream \in {Transmit(m) \o Transmit(n)}, lang \in Languages :
       Arrive(lang, m, n, Len(Transmit(m)), stream)
=============================================================================
