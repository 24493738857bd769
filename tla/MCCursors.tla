----------------------------- MODULE MCCursors -----------------------------
(***************************************************************************)
(* Model checking of the four allocators that place each block at a        *)
(* cursor: a behaviour is one of Stack, Linear, Forward or Frame.          *)
(*                                                                         *)
(* The arena of the stack has a few units and points that nest, so that an *)
(* inner scope runs out of memory while an outer one is open.  The first   *)
(* free address of the linear allocator is not aligned, so that blocks are *)
(* padded right after a reset.  The buffer of the forward allocator has    *)
(* room for a few small blocks, so that the cursor reaches its end and     *)
(* wraps around.  Two lanes of two frames let a lane switch meet a lane    *)
(* with one frame reset and one held.                                      *)
(***************************************************************************)
EXTENDS Stack

CONSTANTS
  LinearArena, SizeOfAllocator, LinearSizes, LinearAlignments,
  m_buffer_end, ForwardSizes, ForwardAlignments, AvoidExactFit, AvoidWrap,
  MaxActiveFrames, FrameArena, FrameSizes, MaxCount

ASSUME FrameAssumption ==
  /\ MaxActiveFrames \in Nat \ {0}
  /\ FrameArena \in Nat
  /\ FrameSizes \subseteq Nat \ {0}
  /\ MaxCount \in Nat

VARIABLES
  allocator,                                        \* whose behaviour this is
  linearPlace, m_save_address, linearLive,          \* of the linear allocator
  mem, m_buffer_cursor, forwardLive,                \* of the forward allocator
  m_active_frames, m_ended_frames, m_active_lane, m_current_frame, m_frames,
  frameArena, ret, held, blocks                     \* of the frame allocator

linearVars == <<linearPlace, m_save_address, linearLive>>
forwardVars == <<mem, m_buffer_cursor, forwardLive>>
frameVars == <<m_active_frames, m_ended_frames, m_active_lane, m_current_frame, m_frames,
               frameArena, ret, held, blocks>>

Lin == INSTANCE Linear
         WITH ArenaSize <- LinearArena, Sizes <- LinearSizes,
              Alignments <- LinearAlignments, arena <- linearPlace, live <- linearLive

Fwd == INSTANCE Forward
         WITH Sizes <- ForwardSizes, Alignments <- ForwardAlignments, live <- forwardLive

Frm == INSTANCE Frame
         WITH ArenaSize <- FrameArena, Sizes <- FrameSizes, arena <- frameArena

MCInit ==
  /\ allocator \in {"stack", "linear", "forward", "frame"}
  /\ Init /\ Lin!Init /\ Fwd!Init /\ Frm!Init

NextOfStack   == allocator = "stack" /\ Next /\ UNCHANGED <<linearVars, forwardVars, frameVars>>
NextOfLinear  == allocator = "linear" /\ Lin!Next /\ UNCHANGED <<vars, forwardVars, frameVars>>
NextOfForward == allocator = "forward" /\ Fwd!Next /\ UNCHANGED <<vars, linearVars, frameVars>>
NextOfFrame   == allocator = "frame" /\ Frm!Next /\ UNCHANGED <<vars, linearVars, forwardVars>>

MCNext ==
  /\ NextOfStack \/ NextOfLinear \/ NextOfForward \/ NextOfFrame
  /\ UNCHANGED allocator

allVars == <<allocator, vars, linearVars, forwardVars, frameVars>>

MCSpec == MCInit /\ [][MCNext]_allVars

-----------------------------------------------------------------------------

\* "ASSERT(s_validate_chain(m_buffer_begin, m_buffer_end))"
\* (c_allocator_forward.cpp:157, 215 and 259), and the chain is that of the live blocks.
ChainIsLive == allocator = "forward" => Fwd!ChainIsLive

\* When the client has freed everything, the forward allocator is empty.
EmptyAgain == allocator = "forward" => Fwd!EmptyAgain

\* The linear allocator is a region allocator of the memory behind itself, and the
\* forward allocator is one over its buffer.
LinearAndForwardImplementRegions == Lin!ImplementsRegions /\ Fwd!ImplementsRegions

\* The counters of both lanes of the frame allocator say how many frames are to end.
LanesAccounted == Frm!LanesAccounted

\* The memory of a frame is kept until the client resets the frame.
BlocksKept == Frm!BlocksKept

\* new_frame fails only while the client holds a frame of the other lane.
FailsOnlyIfHeld == Frm!FailsOnlyIfHeld

\* The frame allocator is a region allocator over both arenas.
FrameImplementsRegions == Frm!ImplementsRegions

=============================================================================
