------------------------------ MODULE CallStack -----------------------------
(***************************************************************************)
(* The call stack (disvm/src/program.rs, Stack): a frame is allocated by   *)
(* new_frame, entered by push_frame and left by pop_frame.  No instruction *)
(* does any of this yet; the type is public, and a host may.               *)
(***************************************************************************)
EXTENDS Integers, Sequences, SequencesExt

VARIABLES
  frames,      \* the frames entered, front of the deque first
  nextFrame    \* next_frame: the frame allocated last, or NoFrame

stackVars == <<frames, nextFrame>>

Frame == [base : Nat, entry_ip : {0}]
NoFrame == [base |-> -1, entry_ip |-> 0]

EmptyStack == frames = <<>> /\ nextFrame = NoFrame

(* base is what vm_allocate returned.                                       *)
NewFrame(base) ==
  /\ nextFrame' = [base |-> base, entry_ip |-> 0]
  /\ UNCHANGED frames

(* The frame stays the next one: it may be pushed again.                    *)
CanPush == nextFrame # NoFrame
PushFrame ==
  /\ frames' = <<nextFrame>> \o frames
  /\ UNCHANGED nextFrame

(* Frames are pushed at the front and popped from the back.  The memory of  *)
(* a frame is never given back.                                             *)
CanPop == frames # <<>>
PopFrame ==
  /\ frames' = Front(frames)
  /\ UNCHANGED nextFrame

(* The frames a stack refers to.                                            *)
FramesHeld == ToSet(frames) \cup ({nextFrame} \ {NoFrame})
=============================================================================
