----------------------------- MODULE Projection -----------------------------
(***************************************************************************)
(* Where a picture lands on a display (display/layout.rs, project_link in  *)
(* routing/router.rs) and what the four levels of layout settings resolve  *)
(* to (settings.rs, wallpaper/properties.rs).  Lengths are integers in     *)
(* units of 1/Unit of a pixel; the rounding of f32 is left out.            *)
(***************************************************************************)
EXTENDS Integers, FiniteSets

CONSTANTS Unit,         \* every quotient of two sizes, halved, is a multiple of 1/Unit
          Sizes,        \* <<width, height>> of textures and displays, in pixels
          Unset         \* an Option that is None

ASSUME ProjectionAssumption ==
  /\ Unit \in Nat \ {0}
  /\ Sizes \subseteq Nat \X Nat
  /\ \A s \in Sizes, side \in {1, 2} : s[side] > 0 => Unit % (2 * s[side]) = 0

FillModes == {"stretched", "fit", "crop", "centered"}
Rotations == {"normal", "cw90", "cw180", "cw270"}
Percent == 0..100
Middle == <<50, 50>>

-----------------------------------------------------------------------------
(* The nine alignments of older settings and the locations they stand for. *)

Edges == {"near", "middle", "far"}
Aligns == Edges \X Edges

Factor(edge) == CASE edge = "near" -> 0 [] edge = "middle" -> 50 [] edge = "far" -> 100
Bucket(v) == IF v <= 25 THEN "near" ELSE IF v >= 75 THEN "far" ELSE "middle"

FromAlign(a) == <<Factor(a[1]), Factor(a[2])>>
ToAlign(at) == <<Bucket(at[1]), Bucket(at[2])>>

\* A location that came over the wire: unsigned, cut at 100 before it is narrowed.
NewLocation(x, y) == LET cut(v) == IF v > 100 THEN 100 ELSE v IN <<cut(x), cut(y)>>

-----------------------------------------------------------------------------
(* Preferences: a level says something about a field or leaves it to the   *)
(* next one.                                                               *)

NoPrefs == [fillmode |-> Unset, location |-> Unset, rotation |-> Unset]

Or(value, other) == IF value = Unset THEN other ELSE value
Over(prefs, base) == [f \in DOMAIN base |-> Or(prefs[f], base[f])]

Turned(rotation) == rotation \in {"cw90", "cw270"}
Transform(rotation) ==
  CASE rotation = "normal" -> 0 [] rotation = "cw90" -> 1
    [] rotation = "cw180" -> 2 [] rotation = "cw270" -> 3

-----------------------------------------------------------------------------
(* compute: a rectangle of the texture and one of the display.             *)

Share(length, percent) == (length * percent) \div 100

\* One axis of a picture shown pixel for pixel: <<source offset, source
\* length, destination offset, destination length>>.
AxisCentered(tex, disp, percent) ==
  IF tex <= disp THEN <<0, tex, Share(disp - tex, percent), tex>>
                 ELSE <<Share(tex - disp, percent), disp, 0, disp>>

Rect(x, y, w, h) == [x |-> x, y |-> y, w |-> w, h |-> h]
Whole(size) == Rect(0, 0, Unit * size[1], Unit * size[2])

\* The display is the narrower of the two: the width decides how far the
\* picture must shrink to fit.
Narrower(disp, tex) == disp[1] * tex[2] <= disp[2] * tex[1]

Scaled(a, num, den) == (Unit * a * num) \div den

\* `size' scaled, with its aspect, to the inside of `frame'.
Inside(size, frame) ==
  IF Narrower(frame, size)
  THEN <<Unit * frame[1], Scaled(size[2], frame[1], size[1])>>
  ELSE <<Scaled(size[1], frame[2], size[2]), Unit * frame[2]>>

Placed(size, frame, at) ==
  Rect(Share(Unit * frame[1] - size[1], at[1]), Share(Unit * frame[2] - size[2], at[2]),
       size[1], size[2])

Fit(tex, disp, at) == [source |-> Whole(tex), dest |-> Placed(Inside(tex, disp), disp, at)]

\* The largest part of the texture with the display's aspect.
CropByFit(tex, disp, at) == [source |-> Placed(Inside(tex, disp), tex, at), dest |-> Whole(disp)]
Crop(tex, disp, at) == [source |-> Placed(Inside(disp, tex), tex, at), dest |-> Whole(disp)]

Centered(tex, disp, at) ==
  LET h == AxisCentered(Unit * tex[1], Unit * disp[1], at[1])
      v == AxisCentered(Unit * tex[2], Unit * disp[2], at[2])
  IN [source |-> Rect(h[1], v[1], h[2], v[2]), dest |-> Rect(h[3], v[3], h[4], v[4])]

Stretched(tex, disp) == [source |-> Whole(tex), dest |-> Whole(disp)]

Compute(tex, disp, layout) ==
  IF 0 \in {tex[1], tex[2], disp[1], disp[2]} THEN Stretched(tex, disp)
  ELSE CASE layout.fillmode = "stretched" -> Stretched(tex, disp)
         [] layout.fillmode = "fit"       -> Fit(tex, disp, layout.location)
         [] layout.fillmode = "crop"      -> Crop(tex, disp, layout.location)
         [] layout.fillmode = "centered"  -> Centered(tex, disp, layout.location)

\* project_link for a link with full rectangles: the display draws before it
\* rotates, so a quarter turn swaps its sides.
Unturned(disp, rotation) == IF Turned(rotation) THEN <<disp[2], disp[1]>> ELSE disp

Project(colour, tex, disp, layout) ==
  LET out == Compute(tex, Unturned(disp, layout.rotation), layout)
  IN [source |-> out.source, dest |-> out.dest,
      transform |-> Transform(layout.rotation), clear |-> colour]

-----------------------------------------------------------------------------
(* display_point_to_texture: a point of the display, in units, and the     *)
(* point of the texture under it, or nothing.                              *)

\* wl_output.transform undone on the square of side n.
Untransform(transform, u, v, n) ==
  CASE transform = 0 -> <<u, v>>
    [] transform = 1 -> <<n - v, u>>
    [] transform = 2 -> <<n - u, n - v>>
    [] transform = 3 -> <<v, n - u>>
    [] transform = 4 -> <<n - u, v>>
    [] transform = 5 -> <<v, u>>
    [] transform = 6 -> <<u, n - v>>
    [] transform = 7 -> <<n - v, n - u>>
    [] OTHER -> <<u, v>>

Nowhere == <<-1, -1>>

\* The square has side w * h, so that both fractions are whole.
PointToTexture(x, y, cfg) ==
  LET d == cfg.dest
      n == d.w * d.h
      u == (x - d.x) * d.h
      v == (y - d.y) * d.w
      at == Untransform(cfg.transform, u, v, n)
  IN IF d.w <= 0 \/ d.h <= 0 THEN Nowhere
     ELSE IF u \notin 0..n \/ v \notin 0..n THEN Nowhere
     ELSE <<cfg.source.x + (at[1] * cfg.source.w) \div n,
            cfg.source.y + (at[2] * cfg.source.h) \div n>>

-----------------------------------------------------------------------------
Pictures == {s \in Sizes : s[1] > 0 /\ s[2] > 0}
Resolved == [fillmode : FillModes, location : {FromAlign(a) : a \in Aligns}, rotation : Rotations]

Within(rect, size) ==
  /\ rect.x >= 0 /\ rect.w >= 0 /\ rect.x + rect.w <= Unit * size[1]
  /\ rect.y >= 0 /\ rect.h >= 0 /\ rect.y + rect.h <= Unit * size[2]

Corners(rect) == {rect.x, rect.x + rect.w} \X {rect.y, rect.y + rect.h}

\* What each fill mode promises of the two rectangles.
ShowsRight(mode, tex, disp, p) ==
  /\ mode = "stretched" => p.source = Whole(tex) /\ p.dest = Whole(disp)
  /\ mode = "fit" => p.source = Whole(tex)
  /\ mode = "crop" => p.dest = Whole(disp)
  /\ mode = "centered" => p.source.w = p.dest.w /\ p.source.h = p.dest.h
  /\ mode \in {"fit", "crop"} => p.dest.w * p.source.h = p.dest.h * p.source.w
  /\ p.source.w = Unit * tex[1] \/ p.dest.w = Unit * disp[1]
  /\ p.source.h = Unit * tex[2] \/ p.dest.h = Unit * disp[2]

\* What is projected lies in the texture and on the surface, is shown as the
\* fill mode says, and corresponds corner on corner; alignments survive.
AllFit ==
  /\ \A a \in Aligns : ToAlign(FromAlign(a)) = a
  /\ \A tex, disp \in Pictures, layout \in Resolved :
       LET p == Project("black", tex, disp, layout)
           surface == Unturned(disp, layout.rotation)
       IN /\ Within(p.source, tex) /\ Within(p.dest, surface)
          /\ ShowsRight(layout.fillmode, tex, surface, p)
          /\ {PointToTexture(c[1], c[2], p) : c \in Corners(p.dest)} = Corners(p.source)
=============================================================================
