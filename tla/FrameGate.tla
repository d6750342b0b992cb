------------------------------ MODULE FrameGate -----------------------------
(***************************************************************************)
(* Dec2026FrameGate: between the session's output events and the drain, it *)
(* recognises synchronised-update frames (DEC private mode 2026) and, in   *)
(* mode "collapse" under pressure, holds a finished frame back so that a   *)
(* frame that repaints the whole screen can replace it.                    *)
(*                                                                         *)
(* Output is a sequence of units [pos, kind]: a begin or end sequence, or  *)
(* one split over two chunks ("cut" and "tail_begin"/"tail_end"), the      *)
(* reset-erase-home prologue that proves a repaint ("reset"), printable    *)
(* text, and anything with an effect beyond the screen ("stateful").  A    *)
(* unit is one byte.  Operators map the gate's state to its next one; what *)
(* it forwards and what it drops with an acknowledgement are returned in   *)
(* the fields out and dropped.  The shadow scan only feeds statistics and  *)
(* is left out.                                                            *)
(***************************************************************************)
EXTENDS Integers, Sequences, SequencesExt

CONSTANTS
    GateMode,           \* "off", "shadow" or "collapse"
    ThrottleBacklog,    \* output.alternateScreenThrottleBacklogBytes
    MaxHeldBytes        \* DEFAULT_MAX_HELD_FRAME_BYTES

ASSUME GateAssumption ==
    /\ GateMode \in {"off", "shadow", "collapse"}
    /\ ThrottleBacklog \in Nat
    /\ MaxHeldBytes \in Nat \ {0}

Kinds == {"begin", "end", "cut", "tail_begin", "tail_end", "reset", "text", "stateful"}

InitGate ==
    [pendingPrefix    |-> <<>>,
     currentFrameData |-> <<>>,
     heldFrame        |-> <<>>,
     failOpenTimer    |-> FALSE,
     disposed         |-> FALSE,
     out              |-> <<>>,
     dropped          |-> <<>>]

HeldUnits(g) == g.pendingPrefix \o g.currentFrameData \o g.heldFrame

getHeldBytes(g) == Len(HeldUnits(g))

-----------------------------------------------------------------------------
(* Classification of a complete frame by its content.                       *)

(* What stands between the begin sequence, cut in two or not, and the end.  *)
Content(frame) ==
    SubSeq(frame, IF frame[1].kind = "cut" THEN 3 ELSE 2, Len(frame) - 1)

(* Nothing but screen drawing: the frame may be replaced by a later one.    *)
IsReplaceableVisual(content) ==
    \A i \in DOMAIN content : content[i].kind \in {"reset", "text"}

(* Reset, erase and home come before anything printable: this frame draws   *)
(* the whole screen by itself.                                              *)
IsSelfContained(content) ==
    \E i \in DOMAIN content :
        /\ content[i].kind = "reset"
        /\ \A j \in 1..(i - 1) : content[j].kind # "text"

-----------------------------------------------------------------------------
forwardText(g, units) == [g EXCEPT !.out = @ \o units]

(* Everything the gate holds goes out: prefix, unfinished frame, held frame.*)
flush(g) ==
    IF g.disposed THEN g
    ELSE [forwardText(g, HeldUnits(g)) EXCEPT
             !.pendingPrefix = <<>>, !.currentFrameData = <<>>, !.heldFrame = <<>>,
             !.failOpenTimer = FALSE]

handleBarrier(g, units) ==
    IF units = <<>> THEN g ELSE forwardText(flush(g), units)

appendCurrentFrame(g, units) ==
    LET grown == [g EXCEPT !.currentFrameData = @ \o units]
    IN  IF units # <<>> /\ Len(grown.currentFrameData) >= MaxHeldBytes
        THEN flush(grown) ELSE grown

(* Variant: any visual successor replaces the held frame.                   *)
handleCompleteFrame_AnySuccessor(g, frame) ==
    IF ~IsReplaceableVisual(Content(frame)) THEN forwardText(flush(g), frame)
    ELSE [g EXCEPT !.dropped = @ \o g.heldFrame, !.heldFrame = frame, !.failOpenTimer = TRUE]

(* A complete frame: forwarded at once when it does more than draw, else    *)
(* held, in place of a predecessor that is dropped if this one repaints     *)
(* everything and forwarded if not.                                         *)
handleCompleteFrame(g, frame) ==
    IF ~IsReplaceableVisual(Content(frame)) THEN forwardText(flush(g), frame)
    ELSE LET placed == IF IsSelfContained(Content(frame))
                       THEN [g EXCEPT !.dropped = @ \o g.heldFrame]
                       ELSE forwardText(g, g.heldFrame)
         IN  [placed EXCEPT !.heldFrame = frame, !.failOpenTimer = TRUE]

-----------------------------------------------------------------------------
(* The text as tokens: a waiting prefix joins the chunk, with its second    *)
(* half as a boundary, with anything else as ordinary text.                 *)
Tokens(prefix, chunk) ==
    LET single == [i \in DOMAIN chunk |-> <<chunk[i]>>]
    IN  IF prefix = <<>> THEN single
        ELSE IF Head(chunk).kind \in {"tail_begin", "tail_end"}
             THEN <<Append(prefix, Head(chunk))>> \o Tail(single)
             ELSE <<prefix>> \o single

Boundary(token) ==
    CASE token = <<>> -> "none"
      [] token[1].kind = "begin" -> "begin"
      [] token[1].kind = "end" -> "end"
      [] Len(token) = 2 /\ token[2].kind = "tail_begin" -> "begin"
      [] Len(token) = 2 /\ token[2].kind = "tail_end" -> "end"
      [] OTHER -> "none"

(* findNextBoundary, over and over: each segment ends with a boundary,      *)
(* except the last.                                                         *)
Segments(tokens) ==
    LET empty == [before |-> <<>>, boundary |-> <<>>]
        add(segs, token) ==
            IF Boundary(token) = "none"
            THEN [segs EXCEPT ![Len(segs)].before = @ \o token]
            ELSE Append([segs EXCEPT ![Len(segs)].boundary = token], empty)
    IN  FoldLeft(add, <<empty>>, tokens)

(* Inside a frame: its end completes it, also when the byte cap has just    *)
(* opened the gate; a second begin opens the gate.                          *)
InFrame(g, segment) ==
    LET grown == appendCurrentFrame(g, segment.before)
    IN  CASE Boundary(segment.boundary) = "none" -> grown
          [] Boundary(segment.boundary) = "begin" -> forwardText(flush(grown), segment.boundary)
          [] Boundary(segment.boundary) = "end" ->
                handleCompleteFrame([grown EXCEPT !.currentFrameData = <<>>],
                                    grown.currentFrameData \o segment.boundary)

(* pendingBoundarySuffix: what may be the first half of a boundary.         *)
pendingBoundarySuffix(units) ==
    IF units # <<>> /\ Last(units).kind = "cut" THEN <<Last(units)>> ELSE <<>>

OutsideFrame(g, segment) ==
    LET before == segment.before
        suffix == pendingBoundarySuffix(before)
    IN  CASE Boundary(segment.boundary) = "none" ->
                [handleBarrier(g, SubSeq(before, 1, Len(before) - Len(suffix)))
                    EXCEPT !.pendingPrefix = suffix]
          [] Boundary(segment.boundary) = "begin" ->
                [handleBarrier(g, before) EXCEPT
                    !.currentFrameData = segment.boundary, !.failOpenTimer = TRUE]
          [] Boundary(segment.boundary) = "end" ->
                handleBarrier(handleBarrier(g, before), segment.boundary)

processSegment(g, segment) ==
    IF g.currentFrameData # <<>> THEN InFrame(g, segment) ELSE OutsideFrame(g, segment)

processCollapseText(g, chunk) ==
    LET segments == Segments(Tokens(g.pendingPrefix, chunk))
        done == FoldLeft(processSegment, [g EXCEPT !.pendingPrefix = <<>>], segments)
    IN  IF getHeldBytes(done) >= MaxHeldBytes THEN flush(done) ELSE done

(* Pressure: an alternate screen whose output is backing up.                *)
canCollapseNow(g, alternateScreen, queueBytes) ==
    /\ GateMode = "collapse"
    /\ alternateScreen
    /\ queueBytes + getHeldBytes(g) > ThrottleBacklog

(* Output whose byte count does not match its text takes the last branch.   *)
enqueueGate(g, chunk, alternateScreen, queueBytes) ==
    IF g.disposed THEN g
    ELSE IF GateMode # "collapse" THEN forwardText(g, chunk)
    ELSE IF canCollapseNow(g, alternateScreen, queueBytes) THEN processCollapseText(g, chunk)
    ELSE forwardText(flush(g), chunk)

failOpenTimeout(g) == flush([g EXCEPT !.failOpenTimer = FALSE])

(* Tearing down acknowledges what is still held instead of drawing it.      *)
disposeGate(g) ==
    IF g.disposed THEN g
    ELSE [InitGate EXCEPT !.disposed = TRUE, !.dropped = HeldUnits(g)]
=============================================================================
