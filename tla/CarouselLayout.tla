--------------------------- MODULE CarouselLayout ---------------------------
(***************************************************************************)
(* How the production renderer lays the copy of a carousel slide out: each *)
(* text is wrapped into lines and drawn at the largest scale at which it   *)
(* fits the space left on the slide, in the order cover, headline, body,   *)
(* call to action; a text that fits at no scale ends the render. The       *)
(* measurements then go to the creative quality gate. A text is the        *)
(* sequence of the lengths of its words.                                   *)
(***************************************************************************)
EXTENDS Naturals, Integers, Sequences, SequencesExt, FiniteSets

CONSTANTS
  Width, Height,  \* canvas of the theme, in pixels
  Covers,         \* cover hooks of a plan
  Headlines,      \* headlines of a slide
  Bodies,         \* bodies of a slide
  Ctas            \* calls to action of a plan

LayoutAssumption == Width \in 64..2160 /\ Height \in 64..3840

VARIABLES
  plan,   \* [cover, cta] of the carousel
  slide,  \* [place, headline, body] of the slide being drawn
  boxes,  \* what was drawn, in order
  y,      \* where the next text starts
  pc      \* "cover" ... "done" or "refused"

vars == <<plan, slide, boxes, y, pc>>

Larger(a, b) == IF a > b THEN a ELSE b
Smaller(a, b) == IF a < b THEN a ELSE b

Pad == Larger(12, (Width * 75) \div 1000)
HeadScale == Larger(2, Width \div 90)
BodyScale == Larger(2, Width \div 150)
MaxWidth == Width - 2 * Pad
SafeBottom == Height - Pad

(* A text is read word by word, from the left.                             *)
Reading(Op(_, _), base, text) ==
  LET upTo[i \in 0..Len(text)] ==
        IF i = 0 THEN base
        ELSE LET before == upTo[i - 1] IN Op(before, text[i])
  IN  upTo[Len(text)]

-----------------------------------------------------------------------------
(* Words longer than a line are cut into pieces of a line's length; the    *)
(* last piece is what remains.                                             *)
Pieces(word, maxChars) ==
  LET full == word \div maxChars
      rest == word % maxChars
  IN  [i \in 1..full |-> maxChars] \o (IF rest = 0 THEN <<>> ELSE <<rest>>)

Tokens(text, maxChars) ==
  Reading(LAMBDA acc, word : acc \o Pieces(word, maxChars), <<>>, text)

LineLength(line) ==
  Reading(+, 0, line) + (IF line = <<>> THEN 0 ELSE Len(line) - 1)

(* One token joins the line if it still fits with its space; otherwise the *)
(* line is closed, which the number of lines must allow, and it opens the  *)
(* next one.                                                               *)
Take(acc, token, maxChars, maxLines) ==
  LET size == acc.size + token + (IF acc.line = <<>> THEN 0 ELSE 1)
      closed == IF acc.line = <<>> THEN acc.lines
                ELSE Append(acc.lines, acc.line)
  IN  IF ~acc.fits THEN acc
      ELSE IF size <= maxChars
           THEN [acc EXCEPT !.line = Append(@, token), !.size = size]
      ELSE IF Len(closed) >= maxLines THEN [acc EXCEPT !.fits = FALSE]
      ELSE [fits |-> TRUE, line |-> <<token>>, size |-> token, lines |-> closed]

(* The lines of a text, or none when they are too many.                    *)
Wrap(text, maxChars, maxLines) ==
  LET end == Reading(LAMBDA acc, t : Take(acc, t, maxChars, maxLines),
                      [fits |-> TRUE, line |-> <<>>, size |-> 0, lines |-> <<>>],
                      Tokens(text, maxChars))
  IN  IF ~end.fits \/ (end.line # <<>> /\ Len(end.lines) >= maxLines) THEN <<>>
      ELSE IF end.line = <<>> THEN end.lines
      ELSE Append(end.lines, end.line)

CharsAt(scale) == Larger(1, MaxWidth \div (4 * scale))

Fits(lines, scale, maxHeight) ==
  lines # <<>> /\ Len(lines) * 7 * scale <= maxHeight

-----------------------------------------------------------------------------
(* Drawing one text at a place: a box with its measurements is added, or   *)
(* the render is refused: no scale fits, or a line would leave the canvas. *)
Box(role, text, top, scale, lines) ==
  LET widest == Reading(LAMBDA w, l : Larger(w, LineLength(l)), 0, lines)
  IN  [role |-> role, text |-> text, lines |-> lines, scale |-> scale, y |-> top,
       width |-> Smaller(MaxWidth, widest * 4 * scale),
       end |-> Pad + widest * 4 * scale,
       height |-> Len(lines) * 7 * scale]

Below(top, box) == top + box.height + BodyScale * 3

Draw(role, text, top, preferred, maxLines, maxHeight, after) ==
  LET at == [s \in 1..preferred |-> Wrap(text, CharsAt(s), maxLines)]
      fitting == {s \in 1..preferred : Fits(at[s], s, maxHeight)}
      scale == CHOOSE s \in fitting : \A t \in fitting : t <= s
      box == Box(role, text, top, scale, at[scale])
  IN  IF fitting = {} THEN pc' = "refused" /\ UNCHANGED <<boxes, y>>
      ELSE IF box.end >= Width THEN pc' = "refused" /\ UNCHANGED <<boxes, y>>
      ELSE /\ boxes' = Append(boxes, box)
           /\ y' = Below(top, box)
           /\ pc' = after

Init ==
  /\ plan \in [cover : Covers, cta : Ctas]
  /\ slide \in [place : {"first", "middle", "final"},
                headline : Headlines, body : Bodies]
  /\ boxes = <<>> /\ y = Pad
  /\ pc = IF slide.place = "first" THEN "cover" ELSE "headline"

Cover ==
  /\ pc = "cover"
  /\ Draw("cover", plan.cover, y, HeadScale, 3, SafeBottom - y, "headline")
  /\ UNCHANGED <<plan, slide>>

(* A headline that only repeats the cover is not drawn again.              *)
DuplicateHeadline == slide.place = "first" /\ slide.headline = plan.cover

Headline ==
  /\ pc = "headline" /\ ~DuplicateHeadline
  /\ Draw("headline", slide.headline, y, HeadScale, 4, SafeBottom - y, "body")
  /\ UNCHANGED <<plan, slide>>

SkipHeadline ==
  /\ pc = "headline" /\ DuplicateHeadline
  /\ pc' = "body"
  /\ UNCHANGED <<plan, slide, boxes, y>>

(* A call to action that the final slide already says is not drawn again.  *)
DuplicateCta ==
  slide.place = "final" /\ plan.cta \in {slide.body, slide.headline}

DrawsCta == slide.place = "final" /\ ~DuplicateCta

(* Three lines and a gap are kept free below the body for the call.        *)
Reserve == IF DrawsCta THEN BodyScale * 7 * 3 + BodyScale * 3 ELSE 0

Body ==
  /\ pc = "body"
  /\ Draw("body", slide.body, y, BodyScale, 12,
          Larger(1, SafeBottom - Reserve - y),
          IF DrawsCta THEN "cta" ELSE "done")
  /\ UNCHANGED <<plan, slide>>

Cta ==
  /\ pc = "cta"
  /\ Draw("cta", plan.cta, SafeBottom - BodyScale * 7 * 3, BodyScale, 3,
          BodyScale * 7 * 3, "done")
  /\ UNCHANGED <<plan, slide>>

Finished == pc \in {"done", "refused"} /\ UNCHANGED vars

Next == Cover \/ Headline \/ SkipHeadline \/ Body \/ Cta \/ Finished

Spec == Init /\ [][Next]_vars

-----------------------------------------------------------------------------
(* The quality gate's view of a slide: the bounds of a text are what is    *)
(* left of the safe area from its corner on.                               *)
Overflows(b) ==
  \/ b.width > Larger(1, MaxWidth)
  \/ b.height > Larger(1, SafeBottom - b.y)
  \/ b.y < Pad \/ b.y + Larger(1, SafeBottom - b.y) > SafeBottom

-----------------------------------------------------------------------------
TypeOK ==
  /\ pc \in {"cover", "headline", "body", "cta", "done", "refused"}
  /\ \A i \in DOMAIN boxes :
       boxes[i].scale >= 1 /\ boxes[i].end <= Width - Pad

(***************************************************************************)
(* No two texts of a slide overlap, the call to action at the foot         *)
(* included, and no text the layout accepts is blocked by the quality gate *)
(* as overflowing.                                                         *)
(***************************************************************************)
TextsApart ==
  /\ \A i, j \in DOMAIN boxes : i < j =>
       boxes[i].y + boxes[i].height <= boxes[j].y
  /\ \A i \in DOMAIN boxes : ~Overflows(boxes[i])

(***************************************************************************)
(* Copy is preserved: the lines of a text, read one after the other, are   *)
(* its words, whatever the scale and the cuts, within the lines it may     *)
(* take (adaptive-carousel-renderer.ts:22).                                *)
(***************************************************************************)
CopyPreserved ==
  \A i \in DOMAIN boxes :
    LET b == boxes[i]
    IN  /\ FlattenSeq(b.lines) = Tokens(b.text, CharsAt(b.scale))
        /\ Reading(+, 0, FlattenSeq(b.lines)) = Reading(+, 0, b.text)
        /\ Len(b.lines) <= 12

(***************************************************************************)
(* A finished slide shows everything its plan puts on it, drawn once or    *)
(* standing for a text that says the same.                                 *)
(***************************************************************************)
EverythingShown ==
  pc = "done" =>
    LET shown == {boxes[i].text : i \in DOMAIN boxes}
    IN  /\ {slide.headline, slide.body} \subseteq shown
        /\ slide.place = "first" => plan.cover \in shown
        /\ slide.place = "final" => plan.cta \in shown

=============================================================================
