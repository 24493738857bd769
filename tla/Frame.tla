-------------------------------- MODULE Frame --------------------------------
(***************************************************************************)
(* frame_allocator_t of c_allocator_frame.cpp: blocks live as long as the  *)
(* frame they were allocated in.  Frames are created in one of two lanes,  *)
(* each with an arena and a table of frames; when the table of the active  *)
(* lane is full the other lane is cleared and becomes the active one,      *)
(* provided that the client has reset every frame of it.                   *)
(*                                                                         *)
(* The frame id number | lane << 24 is the pair <<lane, number>>, the      *)
(* pointer m_current_frame is the lane and index of the frame.  Addresses  *)
(* of an arena start behind the table of frames.                           *)
(***************************************************************************)
EXTENDS Integers, FiniteSets

CONSTANTS
  MaxActiveFrames,  \* m_max_active_frames: the size of a lane's table
  ArenaSize,        \* what an arena has room for besides the table
  Sizes,            \* the sizes the client asks for
  MaxCount          \* bound: allocations of one frame

Lanes   == {0, 1}
Numbers == 0..MaxActiveFrames-1
NoFrame == <<-1, -1>>       \* a null m_current_frame

VARIABLES
  m_active_frames,    \* frames created per lane
  m_ended_frames,     \* frames ended per lane
  m_active_lane,
  m_current_frame,
  m_frames,           \* the tables
  arena,              \* per lane: the first address not allocated
  ret,                \* how the last call ended
  held,               \* history: the frame ids the client has not reset
  blocks              \* history: the blocks of the frames held

vars == <<m_active_frames, m_ended_frames, m_active_lane, m_current_frame, m_frames,
          arena, ret, held, blocks>>

Frame == [m_frame_number : Numbers \cup {-1}, m_num_allocations : Nat,
          m_num_deallocations : Nat, m_ended : {0, 1}]

ZeroFrame == [m_frame_number |-> 0, m_num_allocations |-> 0,
              m_num_deallocations |-> 0, m_ended |-> 0]

Other(lane) == 1 - lane

-----------------------------------------------------------------------------

\* The constructor and setup.
Init ==
  /\ m_active_frames = [l \in Lanes |-> 0]
  /\ m_ended_frames = [l \in Lanes |-> 0]
  /\ m_active_lane = 0
  /\ m_current_frame = NoFrame
  /\ m_frames = [l \in Lanes |-> [i \in Numbers |-> ZeroFrame]]
  /\ arena = [l \in Lanes |-> 0]
  /\ ret = "none"
  /\ held = {} /\ blocks = {}

\* The records of the frames stay as they are.
reset ==
  /\ m_active_frames' = [l \in Lanes |-> 0]
  /\ m_ended_frames' = [l \in Lanes |-> 0]
  /\ m_active_lane' = 0
  /\ m_current_frame' = NoFrame
  /\ arena' = [l \in Lanes |-> 0]
  /\ ret' = "none"
  /\ held' = {} /\ blocks' = {}
  /\ UNCHANGED m_frames

\* What v_end_frame does to the tables and the counters, if there is a current
\* frame.
FramesAfterEnd ==
  IF m_current_frame = NoFrame THEN m_frames
  ELSE [m_frames EXCEPT ![m_current_frame[1]][m_current_frame[2]].m_ended = 1]

\* Mutant: a frame that new_frame ends is not counted.
EndedAfterEnd_NotCounted == m_ended_frames

EndedAfterEnd ==
  IF m_current_frame = NoFrame THEN m_ended_frames
  ELSE [m_ended_frames EXCEPT ![m_active_lane] = @ + 1]

\* Requires a current frame that has not ended.  The answer is always true.
v_end_frame ==
  /\ m_current_frame # NoFrame
  /\ m_frames' = FramesAfterEnd
  /\ m_ended_frames' = EndedAfterEnd
  /\ m_current_frame' = NoFrame
  /\ ret' = "end_true"
  /\ UNCHANGED <<m_active_frames, m_active_lane, arena, held, blocks>>

\* Frame number i of a lane becomes the current frame.
StartFrame(frames, lane, i) ==
  /\ m_frames' = [frames EXCEPT ![lane][i] = [ZeroFrame EXCEPT !.m_frame_number = i]]
  /\ m_current_frame' = <<lane, i>>
  /\ ret' = "frame"
  /\ held' = held \cup {<<lane, i>>}

v_new_frame ==
  /\ m_active_frames[m_active_lane] < MaxActiveFrames
  /\ StartFrame(FramesAfterEnd, m_active_lane, m_active_frames[m_active_lane])
  /\ m_active_frames' = [m_active_frames EXCEPT ![m_active_lane] = @ + 1]
  /\ m_ended_frames' = EndedAfterEnd
  /\ UNCHANGED <<m_active_lane, arena, blocks>>

\* Mutant: the last frame of the lane is not looked at.
LaneIsReset_OffByOne(frames, lane) ==
  \A i \in Numbers : i < m_active_frames[lane] - 1 => frames[lane][i].m_frame_number = -1

\* Mutant: the frames never created are looked at, too.
LaneIsReset_WholeTable(frames, lane) == \A i \in Numbers : frames[lane][i].m_frame_number = -1

\* Every frame of the lane has been reset.
LaneIsReset(frames, lane) ==
  \A i \in Numbers : i < m_active_frames[lane] => frames[lane][i].m_frame_number = -1

\* The active lane is full: clear the other lane and go on there.  That the
\* other lane still has frames to end does not happen (OtherLaneEnded); the
\* code asserts it.
v_new_frame_Switches ==
  LET lane == Other(m_active_lane)
  IN  /\ m_active_frames[m_active_lane] >= MaxActiveFrames
      /\ LaneIsReset(FramesAfterEnd, lane)
      /\ m_active_frames[lane] = EndedAfterEnd[lane]
      /\ StartFrame([FramesAfterEnd EXCEPT ![lane] = [i \in Numbers |-> ZeroFrame]], lane, 0)
      /\ m_active_frames' = [m_active_frames EXCEPT ![lane] = 1]
      /\ m_ended_frames' = [EndedAfterEnd EXCEPT ![lane] = 0]
      /\ m_active_lane' = lane
      /\ arena' = [arena EXCEPT ![lane] = 0]
      /\ UNCHANGED blocks

\* A frame of the other lane is not reset: -1, with the previous frame ended.
v_new_frame_Fails ==
  /\ m_active_frames[m_active_lane] >= MaxActiveFrames
  /\ ~LaneIsReset(FramesAfterEnd, Other(m_active_lane))
  /\ m_frames' = FramesAfterEnd
  /\ m_ended_frames' = EndedAfterEnd
  /\ m_current_frame' = NoFrame
  /\ ret' = "no_frame"
  /\ UNCHANGED <<m_active_frames, m_active_lane, arena, held, blocks>>

\* The client resets a frame it holds, the current one perhaps.
v_reset_frame(id) ==
  LET frame == m_frames[id[1]][id[2]]
      ok    == frame.m_frame_number = id[2]
  IN  /\ m_frames' = IF ok THEN [m_frames EXCEPT ![id[1]][id[2]] =
                                  [ZeroFrame EXCEPT !.m_frame_number = -1]]
                     ELSE m_frames
      /\ ret' = IF ok THEN "reset_true" ELSE "reset_false"
      /\ held' = held \ {id}
      /\ blocks' = {b \in blocks : b.id # id}
      /\ UNCHANGED <<m_active_frames, m_ended_frames, m_active_lane, m_current_frame, arena>>

\* narena::alloc: a block from the arena, or nothing.
Fits(lane, size) == arena[lane] + size <= ArenaSize

CountAllocation ==
  m_frames' = [m_frames EXCEPT ![m_current_frame[1]][m_current_frame[2]].m_num_allocations = @ + 1]

CountOf(counter) == m_frames[m_current_frame[1]][m_current_frame[2]][counter]

\* A block that is allocated in a frame already reset belongs to no frame held.
v_allocate(size) ==
  /\ m_current_frame # NoFrame
  /\ CountOf("m_num_allocations") < MaxCount
  /\ Fits(m_active_lane, size)
  /\ arena' = [arena EXCEPT ![m_active_lane] = @ + size]
  /\ CountAllocation
  /\ blocks' = IF m_current_frame \notin held THEN blocks
               ELSE blocks \cup {[id |-> m_current_frame, ptr |-> arena[m_active_lane], len |-> size]}
  /\ ret' = "block"
  /\ UNCHANGED <<m_active_frames, m_ended_frames, m_active_lane, m_current_frame, held>>

\* An allocation that fails is counted, too.
v_allocate_Fails(size) ==
  /\ m_current_frame # NoFrame
  /\ CountOf("m_num_allocations") < MaxCount
  /\ ~Fits(m_active_lane, size)
  /\ CountAllocation
  /\ ret' = "no_block"
  /\ UNCHANGED <<m_active_frames, m_ended_frames, m_active_lane, m_current_frame, arena,
                 held, blocks>>

\* Requires an allocation of the current frame that is not yet deallocated.
v_deallocate ==
  /\ m_current_frame # NoFrame
  /\ CountOf("m_num_allocations") > CountOf("m_num_deallocations")
  /\ m_frames' = [m_frames EXCEPT ![m_current_frame[1]][m_current_frame[2]].m_num_deallocations = @ + 1]
  /\ ret' = "none"
  /\ UNCHANGED <<m_active_frames, m_ended_frames, m_active_lane, m_current_frame, arena,
                 held, blocks>>

Next ==
  \/ reset \/ v_end_frame
  \/ v_new_frame \/ v_new_frame_Switches \/ v_new_frame_Fails
  \/ \E id \in held : v_reset_frame(id)
  \/ \E size \in Sizes : v_allocate(size)
  \/ \E size \in Sizes : v_allocate_Fails(size)
  \/ v_deallocate

Spec == Init /\ [][Next]_vars

-----------------------------------------------------------------------------
(* Properties                                                              *)

\* Types; the numbers of frames stay within the tables.
TypeOK ==
  /\ m_active_frames \in [Lanes -> 0..MaxActiveFrames]
  /\ m_ended_frames \in [Lanes -> 0..MaxActiveFrames]
  /\ m_active_lane \in Lanes
  /\ m_current_frame \in (Lanes \X Numbers) \cup {NoFrame}
  /\ m_frames \in [Lanes -> [Numbers -> Frame]]
  /\ arena \in [Lanes -> 0..ArenaSize]
  /\ held \subseteq Lanes \X Numbers
  /\ blocks \subseteq [id : Lanes \X Numbers, ptr : Nat, len : Sizes]

\* v_new_frame, "the other lane is still occupied": all its frames have ended,
\* and of the active lane all but the current one.
OtherLaneEnded ==
  /\ m_ended_frames[Other(m_active_lane)] = m_active_frames[Other(m_active_lane)]
  /\ m_active_frames[m_active_lane] - m_ended_frames[m_active_lane]
       = IF m_current_frame = NoFrame THEN 0 ELSE 1

\* Over any number of frames and lane switches the counters of both lanes stay in
\* their range and say how many frames are still to end.
LanesAccounted == TypeOK /\ OtherLaneEnded

\* The client can reset every frame it holds: the table still has that frame
\* under its number, and it is one that was created since the last reset.
HeldCanBeReset ==
  \A id \in held : /\ m_frames[id[1]][id[2]].m_frame_number = id[2]
                   /\ id[2] < m_active_frames[id[1]]

\* The memory of a frame is kept until the client resets the frame, over any
\* number of frames and lane switches in between.
BlocksKept ==
  /\ \A b \in blocks : b.id \in held /\ b.ptr + b.len <= arena[b.id[1]]
  /\ \A b, c \in blocks :
       b # c /\ b.id[1] = c.id[1] => b.ptr + b.len <= c.ptr \/ c.ptr + c.len <= b.ptr

\* v_new_frame fails only while the client holds a frame of the other lane.
FailsOnlyIfHeld ==
  [][ret' = "no_frame" => \E id \in held : id[1] = Other(m_active_lane)]_vars

\* Seen by its client this is a region allocator over both arenas, and the
\* blocks of the frames it holds are its regions.
Regions == INSTANCE RegionAllocator
             WITH Limit <- 2 * ArenaSize,
                  live <- {[ptr |-> b.id[1] * ArenaSize + b.ptr, len |-> b.len] : b \in blocks}

ImplementsRegions == Regions!Spec

=============================================================================
