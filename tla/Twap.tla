-------------------------------- MODULE Twap --------------------------------
(***************************************************************************)
(* execution/twap.py: a TWAPOrder driven by the loop its docstring shows:  *)
(* next_slice until is_complete.  Each slice goes to an executor           *)
(* (external) whose report, of a fill or a failure, may come late, more    *)
(* than once, and after a cancel.  Sizes are in cents.                     *)
(***************************************************************************)
EXTENDS Integers, Functions

CONSTANTS NumSlices,  \* num_slices
          SliceSize,  \* total_size / num_slices
          Jitter,     \* what randomize_size may add to a slice or take from it
          Interval    \* interval_seconds

ASSUME TwapAssumption ==
    /\ NumSlices \in Nat \ {0} /\ SliceSize \in Nat /\ Jitter \in 0..SliceSize
    /\ Interval \in Nat \ {0}

VARIABLES slices,     \* _slices: size, status and fill_size of each
          nextIdx,    \* _next_slice_idx
          age,        \* time since the last slice, counted up to Interval
          cancelled   \* _status = "cancelled"

twapVars == <<slices, nextIdx, age, cancelled>>

Slices == 1..NumSlices
Total == NumSlices * SliceSize

TwapTypeOK ==
    /\ slices \in [Slices -> [size : Int, fill : Nat,
                              status : {"pending", "submitted", "filled", "failed"}]]
    /\ SumFunction([i \in Slices |-> slices[i].size]) = Total
    /\ nextIdx \in 0..NumSlices /\ age \in 0..Interval /\ cancelled \in BOOLEAN

\* _build_slices: every slice but the last is drawn, the last makes up the total.
TwapInit ==
    /\ \E draw \in [1..NumSlices - 1 -> SliceSize - Jitter..SliceSize + Jitter] :
          slices = [i \in Slices |->
              [size |-> IF i < NumSlices THEN draw[i] ELSE Total - SumFunction(draw),
               fill |-> 0, status |-> "pending"]]
    /\ nextIdx = 0 /\ age = Interval /\ cancelled = FALSE

\* The `status` property.
IsComplete == cancelled \/ \A i \in Slices : slices[i].status = "filled"

\* Mutant of SliceLeft: the last slice is never handed out.
SliceLeftButLast == nextIdx + 1 < NumSlices

SliceLeft == nextIdx < NumSlices

NextSlice ==
    /\ ~IsComplete /\ SliceLeft /\ age = Interval
    /\ slices' = [slices EXCEPT ![nextIdx + 1].status = "submitted"]
    /\ nextIdx' = nextIdx + 1
    /\ age' = 0
    /\ UNCHANGED cancelled

\* record_fill overwrites what an earlier report of the slice said, even after cancel().
SliceFilled(i) ==
    /\ i <= nextIdx
    /\ \E size \in {slices[i].size, slices[i].size \div 2} \cap Nat :
          slices' = [slices EXCEPT ![i].status = "filled", ![i].fill = size]
    /\ UNCHANGED <<nextIdx, age, cancelled>>

\* record_failure keeps the fill_size of an earlier fill.
SliceFailed(i) ==
    /\ i <= nextIdx
    /\ slices' = [slices EXCEPT ![i].status = "failed"]
    /\ UNCHANGED <<nextIdx, age, cancelled>>

Cancel ==
    /\ ~cancelled
    /\ cancelled' = TRUE
    /\ slices' = [i \in Slices |->
          IF slices[i].status \in {"pending", "submitted"}
              THEN [slices[i] EXCEPT !.status = "failed"] ELSE slices[i]]
    /\ UNCHANGED <<nextIdx, age>>

Pass == age < Interval /\ age' = age + 1 /\ UNCHANGED <<slices, nextIdx, cancelled>>

TwapNext ==
    \/ NextSlice \/ Cancel \/ Pass
    \/ \E i \in Slices : SliceFilled(i) \/ SliceFailed(i)

\* The driving loop keeps calling next_slice, time passes, and the executor reports on
\* every slice it was given.
TwapFairness ==
    /\ WF_twapVars(NextSlice) /\ WF_twapVars(Pass)
    /\ \A i \in Slices : WF_twapVars(slices[i].status = "submitted" /\ (SliceFilled(i) \/ SliceFailed(i)))

TwapSpec == TwapInit /\ [][TwapNext]_twapVars /\ TwapFairness

-----------------------------------------------------------------------------
\* Liveness.  The docstring's `while not twap.is_complete` ends: every slice gets its turn and
\* its report, unless a slice fails.  The exception is real: nothing resubmits a failed
\* slice and `completed` wants all of them filled, so after one failure that loop turns
\* until somebody cancels the order.
LoopEndsUnlessASliceFails == <>(IsComplete \/ \E i \in Slices : slices[i].status = "failed")
=============================================================================
