---------------------------- MODULE QualityGates ----------------------------
(***************************************************************************)
(* pipeline/quality.py, analytics/drift.py and the status rule of          *)
(* acquisition/runner.py: the pure judgements on an item and on a run.     *)
(*                                                                         *)
(* Prices are whole numbers and the two fractional thresholds are per      *)
(* cent, so that ratios are compared by cross-multiplication; the code's   *)
(* float and Decimal rounding is left out.                                 *)
(***************************************************************************)
EXTENDS Integers

CONSTANTS PriceMin, PriceMax,  \* ACQUIRE_QUALITY_PRICE_MIN and _MAX
          MaxJumpRatio,        \* ACQUIRE_QUALITY_MAX_JUMP_RATIO
          VolumeTolerance,     \* ACQUIRE_QUALITY_VOLUME_TOLERANCE, per cent
          VolumeMinBaseline,   \* ACQUIRE_QUALITY_VOLUME_MIN_BASELINE
          DriftMinEntries,     \* ACQUIRE_DRIFT_MIN_ENTRIES
          DriftMaxUnmapped     \* ACQUIRE_DRIFT_MAX_UNMAPPED_RATIO, per cent

ASSUME GateAssumption ==
    /\ PriceMin \in Nat /\ PriceMax \in Nat
    /\ MaxJumpRatio \in Nat \ {0}
    /\ VolumeTolerance \in Nat /\ VolumeMinBaseline \in Nat
    /\ DriftMinEntries \in Nat /\ DriftMaxUnmapped \in Nat

(* The None of a product without a committed price, or of a source without *)
(* a committed run.                                                        *)
None == -1

OutOfRange(amount) == amount < PriceMin \/ amount > PriceMax

(* A missing, zero or negative price on either side always passes.         *)
Discontinuous(amount, prev) ==
    /\ prev > 0
    /\ amount > 0
    /\ amount > MaxJumpRatio * prev \/ prev > MaxJumpRatio * amount

VolumeAnomaly(count, baseline) ==
    /\ baseline # None
    /\ baseline >= VolumeMinBaseline
    /\ \/ 100 * count < baseline * (100 - VolumeTolerance)
       \/ 100 * count > baseline * (100 + VolumeTolerance)

AssessDrift(seen, mapped) ==
    /\ seen >= DriftMinEntries
    /\ seen # 0
    /\ 100 * (seen - mapped) > DriftMaxUnmapped * seen

Terminal == {"success", "partial", "failed", "quarantined", "flagged"}

(* The statuses whose counts may serve as a baseline.                      *)
Committing == {"success", "partial"}

(* Mutant: the finish reason of an unfinished crawl is its status.         *)
StatusFromReason(reason, rejected, quarantined, drift) ==
    IF reason # "finished" THEN reason
    ELSE IF rejected > 0 THEN "partial" ELSE "success"

RunStatus(reason, rejected, quarantined, drift) ==
    IF reason # "finished" THEN "failed"
    ELSE IF drift THEN "flagged"
    ELSE IF quarantined THEN "quarantined"
    ELSE IF rejected > 0 THEN "partial" ELSE "success"

=============================================================================
