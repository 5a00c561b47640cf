------------------------------- MODULE Formats -------------------------------
(***************************************************************************)
(* What two peers can exchange a buffer in: the capabilities a peer sends, *)
(* their way over the wire, and the scheme the daemon picks for a renderer *)
(* and a display (bridge/src/bridge.c, dma/negotiate.rs).                  *)
(*                                                                         *)
(* A fourcc is a number, in the order of the map that is walked; a         *)
(* modifier is a model value.  A bit mask is the set of its bits, numbered *)
(* from the lowest.                                                        *)
(***************************************************************************)
EXTENDS Integers, Sequences, SequencesExt, FiniteSetsExt

CONSTANTS
  Fourccs,      \* numbers
  Modifiers,
  Linear,       \* DRM_FORMAT_MOD_LINEAR
  Uuids,        \* device uuids
  Nodes,        \* DRM render nodes
  Unknown,      \* an all-zero uuid, or node 0:0
  Refused       \* Err(..): no scheme, or malformed caps

ASSUME FormatsAssumption ==
  /\ Fourccs \subseteq Nat /\ IsFiniteSet(Fourccs)
  /\ Linear \in Modifiers
  /\ Unknown \notin Uuids \cup Nodes

-----------------------------------------------------------------------------
(* Identity: uuids decide when both are known, else the render nodes.      *)

SameDevice(a, b) ==
  IF Unknown \notin {a.uuid, b.uuid}
  THEN a.uuid = b.uuid
  ELSE a.node # Unknown /\ a.node = b.node

-----------------------------------------------------------------------------
(* The wire.  A peer lists entries [fourcc, modifier, planes]; it sends    *)
(* runs of equal fourccs and parallel arrays, and the daemon puts them     *)
(* together again by fourcc.                                               *)

\* The first entry of every run of equal fourccs.
RunStarts(entries) ==
  {i \in DOMAIN entries : i > 1 => entries[i - 1].fourcc # entries[i].fourcc}

\* The n-th element of a set of numbers.
Nth(S, n) == CHOOSE x \in S : Cardinality({y \in S : y < x}) = n - 1

Flatten(entries) ==
  LET starts == RunStarts(entries)
      size == Cardinality(starts)
      next(k) == IF k = size THEN Len(entries) + 1 ELSE Nth(starts, k + 1)
  IN  [fourccs   |-> [k \in 1..size |-> entries[Nth(starts, k)].fourcc],
       counts    |-> [k \in 1..size |-> next(k) - Nth(starts, k)],
       modifiers |-> [i \in DOMAIN entries |-> entries[i].modifier],
       planes    |-> [i \in DOMAIN entries |-> entries[i].planes]]

SumUpTo(counts, k) == FoldLeft(LAMBDA a, b : a + b, 0, SubSeq(counts, 1, k))

UnflattenPrepending(wire) ==
  LET block(k) ==
        [j \in 1..wire.counts[k] |->
           LET at == SumUpTo(wire.counts, k - 1) + j
           IN  [modifier |-> wire.modifiers[at], planes |-> wire.planes[at]]]
      blocksOf(f) ==
        FoldLeft(LAMBDA acc, k : IF wire.fourccs[k] = f THEN block(k) \o acc ELSE acc,
                 <<>>, [k \in DOMAIN wire.fourccs |-> k])
  IN  [f \in Range(wire.fourccs) |-> blocksOf(f)]

\* One block of the arrays per listed fourcc, appended to what the fourcc
\* already has.
Unflatten(wire) ==
  LET total == SumUpTo(wire.counts, Len(wire.counts))
      block(k) ==
        [j \in 1..wire.counts[k] |->
           LET at == SumUpTo(wire.counts, k - 1) + j
           IN  [modifier |-> wire.modifiers[at], planes |-> wire.planes[at]]]
      blocksOf(f) ==
        FoldLeft(LAMBDA acc, k : IF wire.fourccs[k] = f THEN acc \o block(k) ELSE acc,
                 <<>>, [k \in DOMAIN wire.fourccs |-> k])
  IN  IF \/ Len(wire.fourccs) # Len(wire.counts)
         \/ Len(wire.modifiers) # total
         \/ Len(wire.planes) # total
      THEN Refused
      ELSE [f \in Range(wire.fourccs) |-> blocksOf(f)]

-----------------------------------------------------------------------------
(* A peer's capabilities, with the pairs it has refused so far.            *)

NoPairs == {}
PeerCaps(formats, id, sync, hints, colors) ==
  [formats |-> formats, id |-> id, sync |-> sync, hints |-> hints,
   colors |-> colors, black |-> NoPairs]

\* A peer that has just sent its capabilities: entries by fourcc.
IsPeer(c) ==
  /\ c = PeerCaps(c.formats, c.id, c.sync, c.hints, c.colors)
  /\ DOMAIN c.formats \subseteq Fourccs
  /\ \A f \in DOMAIN c.formats : c.formats[f] \in Seq([modifier : Modifiers, planes : Nat])

Bans(caps, f, m) == <<f, m>> \in caps.black
WithBan(caps, f, m) == [caps EXCEPT !.black = @ \cup {<<f, m>>}]

Common(p, c) == DOMAIN p.formats \cap DOMAIN c.formats

UsableHere(p, c) ==
  {o \in UNION {{f} \X DOMAIN p.formats[f] : f \in Common(p, c)} :
     LET e == p.formats[o[1]][o[2]]
     IN  /\ ~Bans(p, o[1], e.modifier)
         /\ \E j \in DOMAIN c.formats[o[1]] : c.formats[o[1]][j] = e}

\* What both sides can use: entries of the producer, by fourcc and index, with
\* a consumer's entry of the same modifier and planes, refused by neither.
Usable(p, c) ==
  {o \in UNION {{f} \X DOMAIN p.formats[f] : f \in Common(p, c)} :
     LET e == p.formats[o[1]][o[2]]
     IN  /\ ~Bans(p, o[1], e.modifier) /\ ~Bans(c, o[1], e.modifier)
         /\ \E j \in DOMAIN c.formats[o[1]] : c.formats[o[1]][j] = e}

IsTiled(p, o) == p.formats[o[1]][o[2]].modifier # Linear

\* Tiled before linear, then the least fourcc, then the producer's order.
Before(p, o, x) ==
  IF IsTiled(p, o) # IsTiled(p, x) THEN IsTiled(p, o)
  ELSE o[1] < x[1] \/ (o[1] = x[1] /\ o[2] <= x[2])

\* Same device: at most one option, the best of them.
PickFormat(p, c) == {o \in Usable(p, c) : \A x \in Usable(p, c) : Before(p, o, x)}

\* Another device: linear, in the least common fourcc nobody refused it in.
PickFourcc(p, c) ==
  LET fs == {f \in Common(p, c) : ~Bans(p, f, Linear) /\ ~Bans(c, f, Linear)}
  IN  {f \in fs : \A x \in fs : f <= x}

-----------------------------------------------------------------------------
(* The rest of a scheme.                                                   *)

Implicit == 0
Binary == 1
Timeline == 2

\* The best mode both have: SYNC_SYNCOBJ_TIMELINE is the highest bit.
PickSync(p, c) == Max(p.sync \cap c.sync)

\* Encoding, range and alpha each: the lowest common bit, or the bit of
\* DEFAULT_COLOR (sRGB, limited range, premultiplied).
Axes == <<[bits |-> 0..4, default |-> 0], [bits |-> 5..6, default |-> 6],
          [bits |-> 7..8, default |-> 7]>>
PickColor(p, c) ==
  LET on(axis) == LET common == p.colors \cap c.colors \cap axis.bits
                  IN  IF common = {} THEN axis.default ELSE Min(common)
  IN  {on(Axes[k]) : k \in DOMAIN Axes}

DeviceLocal == 0
HostVisible == 1
PickHints(p, c) ==
  LET common == p.hints \cap c.hints
  IN  IF DeviceLocal \in common THEN {DeviceLocal}
      ELSE IF HostVisible \in common THEN {HostVisible}
      ELSE IF common # {} THEN common ELSE {HostVisible}

\* pick: the scheme for a renderer and a display, or Refused.
Scheme(p, c, f, m, n, hints, path) ==
  [fourcc |-> f, modifier |-> m, planes |-> n, sync |-> PickSync(p, c),
   color |-> PickColor(p, c), hints |-> hints, path |-> path]

SchemesSame(p, c) ==
  {LET e == p.formats[o[1]][o[2]]
   IN  Scheme(p, c, o[1], e.modifier, e.planes, PickHints(p, c),
              IF e.modifier = Linear THEN "linear" ELSE "same_device")
     : o \in PickFormat(p, c)}

SchemesCross(p, c) ==
  {Scheme(p, c, f, Linear, 1, {}, "linear") : f \in PickFourcc(p, c)}

Schemes(p, c) ==
  IF SameDevice(p.id, c.id) THEN SchemesSame(p, c) ELSE SchemesCross(p, c)

Pick(p, c) ==
  IF p.sync \cap c.sync = {} \/ Schemes(p, c) = {} THEN Refused
  ELSE CHOOSE s \in Schemes(p, c) : TRUE

-----------------------------------------------------------------------------
(* What the wire and the picker promise.                                   *)

EntriesOf(list, f) ==
  LET own == SelectSeq(list, LAMBDA e : e.fourcc = f)
  IN  [i \in DOMAIN own |-> [modifier |-> own[i].modifier, planes |-> own[i].planes]]

\* A list arrives as it was sent, in its order, fourcc by fourcc.
Survives(list) ==
  Unflatten(Flatten(list)) =
    [f \in {list[i].fourcc : i \in DOMAIN list} |-> EntriesOf(list, f)]

\* Both list the pair with the same planes.
BothList(p, c, s) ==
  \E i \in DOMAIN p.formats[s.fourcc], j \in DOMAIN c.formats[s.fourcc] :
    /\ p.formats[s.fourcc][i].modifier = s.modifier
    /\ p.formats[s.fourcc][i].planes = s.planes
    /\ c.formats[s.fourcc][j] = p.formats[s.fourcc][i]

\* Nobody refused it; on one device both list it, and it is linear only when
\* nothing tiled is left; from one device to another it is linear.
IsUsable(p, c, s) ==
  /\ ~Bans(p, s.fourcc, s.modifier)
  /\ ~Bans(c, s.fourcc, s.modifier)
  /\ s.fourcc \in Common(p, c)
  /\ IF SameDevice(p.id, c.id)
     THEN /\ BothList(p, c, s)
          /\ s.modifier = Linear => \A o \in Usable(p, c) : ~IsTiled(p, o)
     ELSE s.modifier = Linear
=============================================================================
