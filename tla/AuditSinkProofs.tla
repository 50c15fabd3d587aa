--------------------------- MODULE AuditSinkProofs ---------------------------
(***************************************************************************)
(* Theorems about AuditSink, for every set of threads, every bound and     *)
(* every set of faults.                                                    *)
(***************************************************************************)
EXTENDS AuditSink, FiniteSetTheorems, FunctionTheorems, TLAPS

(* A receipt is a record of four naturals, whatever generations are left.  *)
LEMMA ReceiptsType ==
    ASSUME NEW first \in Nat, NEW last \in Nat, NEW batch \in Nat, NEW types
    PROVE  Receipts(first, last, batch, types) \subseteq Receipt
<1>1. Cardinality(types \intersect (first..last)) \in Nat
  <2>1. IsFiniteSet(first..last)  BY FS_Interval
  <2>2. IsFiniteSet(types \intersect (first..last))  BY <2>1, FS_Intersection
  <2>. QED  BY <2>2, FS_CardinalityType
<1>2. \A g \in first..last : last + 1 - first \in Nat  OBVIOUS
<1>. QED  BY <1>1, <1>2 DEF Receipts, Receipt

(* Every step keeps the file within its type. *)
LEMMA FileTypeStep == TypeOK /\ [Next]_vars => FileTypeOK'
<1>. SUFFICES ASSUME TypeOK, [Next]_vars PROVE FileTypeOK'
  OBVIOUS
<1>. USE SinkAssumption DEF filevars, genvars, statevars, batchvars, threadvars, histvars
<1>1. CASE OpenExisting  BY <1>1 DEF TypeOK, FileTypeOK, OpenExisting
<1>2. CASE CreateFile  BY <1>2 DEF TypeOK, FileTypeOK, CreateFile
<1>3. CASE FsyncParent  BY <1>3 DEF TypeOK, FileTypeOK, FsyncParent
<1>4. CASE FsyncParentFails  BY <1>4 DEF TypeOK, FileTypeOK, FsyncParentFails
<1>5. ASSUME NEW t \in Threads, Append(t) PROVE FileTypeOK'
  BY <1>5 DEF TypeOK, FileTypeOK, SinkTypeOK, Append
<1>6. ASSUME NEW t \in Threads, AppendFails(t) PROVE FileTypeOK'
  BY <1>6 DEF TypeOK, FileTypeOK, AppendFails
<1>7. ASSUME NEW t \in Threads, RaiseUnavailable(t) PROVE FileTypeOK'
  BY <1>7 DEF TypeOK, FileTypeOK, RaiseUnavailable
<1>8. ASSUME NEW t \in Threads, TakeReceipt(t) PROVE FileTypeOK'
  BY <1>8 DEF TypeOK, FileTypeOK, TakeReceipt
<1>9. ASSUME NEW t \in Threads, BecomeLeaderOrWait(t) PROVE FileTypeOK'
  BY <1>9 DEF TypeOK, FileTypeOK, BecomeLeaderOrWait
<1>10. ASSUME NEW t \in Threads, LeaderRaises(t) PROVE FileTypeOK'
  BY <1>10 DEF TypeOK, FileTypeOK, LeaderRaises
<1>11. ASSUME NEW t \in Threads, CaptureTarget(t) PROVE FileTypeOK'
  BY <1>11 DEF TypeOK, FileTypeOK, CaptureTarget
<1>12. ASSUME NEW t \in Threads, SyncSucceeds(t) PROVE FileTypeOK'
  BY <1>12 DEF TypeOK, FileTypeOK, SyncSucceeds
<1>13. ASSUME NEW t \in Threads, SyncFails(t) PROVE FileTypeOK'
  BY <1>13 DEF TypeOK, FileTypeOK, SyncFails
<1>14. ASSUME NEW t \in Threads, PoisonSink(t) PROVE FileTypeOK'
  BY <1>14 DEF TypeOK, FileTypeOK, PoisonSink
<1>15. ASSUME NEW t \in Threads, PublishBatch(t) PROVE FileTypeOK'
  BY <1>15 DEF TypeOK, FileTypeOK, PublishBatch
<1>16. CASE CloseBegins  BY <1>16 DEF TypeOK, FileTypeOK, CloseBegins
<1>17. CASE CloseMarks  BY <1>17 DEF TypeOK, FileTypeOK, CloseMarks
<1>18. CASE CloseFd  BY <1>18 DEF TypeOK, FileTypeOK, CloseFd
<1>19. CASE ProcessEnds  BY <1>19 DEF TypeOK, FileTypeOK, ProcessEnds, NewProcess
<1>20. CASE PowerLoss  BY <1>20 DEF TypeOK, FileTypeOK, PowerLoss, NewProcess
<1>21. CASE UNCHANGED vars  BY <1>21 DEF TypeOK, FileTypeOK, vars
<1>. QED
  BY <1>1, <1>2, <1>3, <1>4, <1>5, <1>6, <1>7, <1>8, <1>9, <1>10, <1>11, <1>12, <1>13,
     <1>14, <1>15, <1>16, <1>17, <1>18, <1>19, <1>20, <1>21
  DEF Next, ThreadStep, CloseStep

(* Every step keeps the flags within their types. *)
LEMMA FlagTypeStep == TypeOK /\ [Next]_vars => FlagTypeOK'
<1>. SUFFICES ASSUME TypeOK, [Next]_vars PROVE FlagTypeOK'
  OBVIOUS
<1>. USE SinkAssumption DEF filevars, genvars, statevars, batchvars, threadvars, histvars
<1>1. CASE OpenExisting  BY <1>1 DEF TypeOK, FlagTypeOK, OpenExisting
<1>2. CASE CreateFile  BY <1>2 DEF TypeOK, FlagTypeOK, CreateFile
<1>3. CASE FsyncParent  BY <1>3 DEF TypeOK, FlagTypeOK, FsyncParent
<1>4. CASE FsyncParentFails  BY <1>4 DEF TypeOK, FlagTypeOK, FsyncParentFails
<1>5. ASSUME NEW t \in Threads, Append(t) PROVE FlagTypeOK'
  BY <1>5 DEF TypeOK, FlagTypeOK, Append
<1>6. ASSUME NEW t \in Threads, AppendFails(t) PROVE FlagTypeOK'
  BY <1>6 DEF TypeOK, FlagTypeOK, AppendFails
<1>7. ASSUME NEW t \in Threads, RaiseUnavailable(t) PROVE FlagTypeOK'
  BY <1>7 DEF TypeOK, FlagTypeOK, RaiseUnavailable
<1>8. ASSUME NEW t \in Threads, TakeReceipt(t) PROVE FlagTypeOK'
  BY <1>8 DEF TypeOK, FlagTypeOK, TakeReceipt
<1>9. ASSUME NEW t \in Threads, BecomeLeaderOrWait(t) PROVE FlagTypeOK'
  BY <1>9 DEF TypeOK, FlagTypeOK, BecomeLeaderOrWait
<1>10. ASSUME NEW t \in Threads, LeaderRaises(t) PROVE FlagTypeOK'
  BY <1>10 DEF TypeOK, FlagTypeOK, LeaderRaises
<1>11. ASSUME NEW t \in Threads, CaptureTarget(t) PROVE FlagTypeOK'
  BY <1>11 DEF TypeOK, FlagTypeOK, CaptureTarget
<1>12. ASSUME NEW t \in Threads, SyncSucceeds(t) PROVE FlagTypeOK'
  BY <1>12 DEF TypeOK, FlagTypeOK, SyncSucceeds
<1>13. ASSUME NEW t \in Threads, SyncFails(t) PROVE FlagTypeOK'
  BY <1>13 DEF TypeOK, FlagTypeOK, SyncFails
<1>14. ASSUME NEW t \in Threads, PoisonSink(t) PROVE FlagTypeOK'
  BY <1>14 DEF TypeOK, FlagTypeOK, PoisonSink
<1>15. ASSUME NEW t \in Threads, PublishBatch(t) PROVE FlagTypeOK'
  BY <1>15 DEF TypeOK, FlagTypeOK, PublishBatch
<1>16. CASE CloseBegins  BY <1>16 DEF TypeOK, FlagTypeOK, CloseBegins
<1>17. CASE CloseMarks  BY <1>17 DEF TypeOK, FlagTypeOK, CloseMarks
<1>18. CASE CloseFd  BY <1>18 DEF TypeOK, FlagTypeOK, CloseFd
<1>19. CASE ProcessEnds  BY <1>19 DEF TypeOK, FlagTypeOK, ProcessEnds, NewProcess
<1>20. CASE PowerLoss  BY <1>20 DEF TypeOK, FlagTypeOK, PowerLoss, NewProcess
<1>21. CASE UNCHANGED vars  BY <1>21 DEF TypeOK, FlagTypeOK, vars
<1>. QED
  BY <1>1, <1>2, <1>3, <1>4, <1>5, <1>6, <1>7, <1>8, <1>9, <1>10, <1>11, <1>12, <1>13,
     <1>14, <1>15, <1>16, <1>17, <1>18, <1>19, <1>20, <1>21
  DEF Next, ThreadStep, CloseStep

(* Every step keeps the sink's counters within their types. *)
LEMMA SinkTypeStep == TypeOK /\ [Next]_vars => SinkTypeOK'
<1>. SUFFICES ASSUME TypeOK, [Next]_vars PROVE SinkTypeOK'
  OBVIOUS
<1>. USE SinkAssumption DEF filevars, genvars, statevars, batchvars, threadvars, histvars
<1>1. CASE OpenExisting  BY <1>1 DEF TypeOK, SinkTypeOK, OpenExisting
<1>2. CASE CreateFile  BY <1>2 DEF TypeOK, SinkTypeOK, CreateFile
<1>3. CASE FsyncParent  BY <1>3 DEF TypeOK, SinkTypeOK, FsyncParent
<1>4. CASE FsyncParentFails  BY <1>4 DEF TypeOK, SinkTypeOK, FsyncParentFails
<1>5. ASSUME NEW t \in Threads, Append(t) PROVE SinkTypeOK'
  BY <1>5 DEF TypeOK, SinkTypeOK, Append
<1>6. ASSUME NEW t \in Threads, AppendFails(t) PROVE SinkTypeOK'
  BY <1>6 DEF TypeOK, SinkTypeOK, AppendFails
<1>7. ASSUME NEW t \in Threads, RaiseUnavailable(t) PROVE SinkTypeOK'
  BY <1>7 DEF TypeOK, SinkTypeOK, RaiseUnavailable
<1>8. ASSUME NEW t \in Threads, TakeReceipt(t) PROVE SinkTypeOK'
  BY <1>8 DEF TypeOK, SinkTypeOK, TakeReceipt
<1>9. ASSUME NEW t \in Threads, BecomeLeaderOrWait(t) PROVE SinkTypeOK'
  BY <1>9 DEF TypeOK, SinkTypeOK, BecomeLeaderOrWait
<1>10. ASSUME NEW t \in Threads, LeaderRaises(t) PROVE SinkTypeOK'
  BY <1>10 DEF TypeOK, SinkTypeOK, LeaderRaises
<1>11. ASSUME NEW t \in Threads, CaptureTarget(t) PROVE SinkTypeOK'
  BY <1>11 DEF TypeOK, SinkTypeOK, CaptureTarget
<1>12. ASSUME NEW t \in Threads, SyncSucceeds(t) PROVE SinkTypeOK'
  BY <1>12 DEF TypeOK, SinkTypeOK, SyncSucceeds
<1>13. ASSUME NEW t \in Threads, SyncFails(t) PROVE SinkTypeOK'
  BY <1>13 DEF TypeOK, SinkTypeOK, SyncFails
<1>14. ASSUME NEW t \in Threads, PoisonSink(t) PROVE SinkTypeOK'
  BY <1>14 DEF TypeOK, SinkTypeOK, PoisonSink
<1>15. ASSUME NEW t \in Threads, PublishBatch(t) PROVE SinkTypeOK'
  BY <1>15 DEF TypeOK, SinkTypeOK, ThreadTypeOK, PublishBatch
<1>16. CASE CloseBegins  BY <1>16 DEF TypeOK, SinkTypeOK, CloseBegins
<1>17. CASE CloseMarks  BY <1>17 DEF TypeOK, SinkTypeOK, CloseMarks
<1>18. CASE CloseFd  BY <1>18 DEF TypeOK, SinkTypeOK, CloseFd
<1>19. CASE ProcessEnds  BY <1>19 DEF TypeOK, SinkTypeOK, ProcessEnds, NewProcess
<1>20. CASE PowerLoss  BY <1>20 DEF TypeOK, SinkTypeOK, PowerLoss, NewProcess
<1>21. CASE UNCHANGED vars  BY <1>21 DEF TypeOK, SinkTypeOK, vars
<1>. QED
  BY <1>1, <1>2, <1>3, <1>4, <1>5, <1>6, <1>7, <1>8, <1>9, <1>10, <1>11, <1>12, <1>13,
     <1>14, <1>15, <1>16, <1>17, <1>18, <1>19, <1>20, <1>21
  DEF Next, ThreadStep, CloseStep

(* Every step keeps the batches within their types. *)
LEMMA BatchTypeStep == TypeOK /\ [Next]_vars => BatchTypeOK'
<1>. SUFFICES ASSUME TypeOK, [Next]_vars PROVE BatchTypeOK'
  OBVIOUS
<1>. USE SinkAssumption DEF filevars, genvars, statevars, batchvars, threadvars, histvars
<1>1. CASE OpenExisting  BY <1>1 DEF TypeOK, BatchTypeOK, OpenExisting
<1>2. CASE CreateFile  BY <1>2 DEF TypeOK, BatchTypeOK, CreateFile
<1>3. CASE FsyncParent  BY <1>3 DEF TypeOK, BatchTypeOK, FsyncParent
<1>4. CASE FsyncParentFails  BY <1>4 DEF TypeOK, BatchTypeOK, FsyncParentFails
<1>5. ASSUME NEW t \in Threads, Append(t) PROVE BatchTypeOK'
  BY <1>5 DEF TypeOK, BatchTypeOK, SinkTypeOK, Append
<1>6. ASSUME NEW t \in Threads, AppendFails(t) PROVE BatchTypeOK'
  BY <1>6 DEF TypeOK, BatchTypeOK, AppendFails
<1>7. ASSUME NEW t \in Threads, RaiseUnavailable(t) PROVE BatchTypeOK'
  BY <1>7 DEF TypeOK, BatchTypeOK, RaiseUnavailable
<1>8. ASSUME NEW t \in Threads, TakeReceipt(t) PROVE BatchTypeOK'
  BY <1>8 DEF TypeOK, BatchTypeOK, TakeReceipt
<1>9. ASSUME NEW t \in Threads, BecomeLeaderOrWait(t) PROVE BatchTypeOK'
  BY <1>9 DEF TypeOK, BatchTypeOK, BecomeLeaderOrWait
<1>10. ASSUME NEW t \in Threads, LeaderRaises(t) PROVE BatchTypeOK'
  BY <1>10 DEF TypeOK, BatchTypeOK, LeaderRaises
<1>11. ASSUME NEW t \in Threads, CaptureTarget(t) PROVE BatchTypeOK'
  BY <1>11 DEF TypeOK, BatchTypeOK, CaptureTarget
<1>12. ASSUME NEW t \in Threads, SyncSucceeds(t) PROVE BatchTypeOK'
  BY <1>12 DEF TypeOK, BatchTypeOK, SyncSucceeds
<1>13. ASSUME NEW t \in Threads, SyncFails(t) PROVE BatchTypeOK'
  BY <1>13 DEF TypeOK, BatchTypeOK, SyncFails
<1>14. ASSUME NEW t \in Threads, PoisonSink(t) PROVE BatchTypeOK'
  BY <1>14 DEF TypeOK, BatchTypeOK, PoisonSink
<1>15. ASSUME NEW t \in Threads, PublishBatch(t) PROVE BatchTypeOK'
  <2>1. Receipts(previous_durable[t] + 1, target_generation[t], sync_count + 1,
                 generation_event_types) \subseteq Receipt
    BY ReceiptsType DEF TypeOK, SinkTypeOK, ThreadTypeOK
  <2>. QED  BY <1>15, <2>1 DEF TypeOK, BatchTypeOK, PublishBatch
<1>16. CASE CloseBegins  BY <1>16 DEF TypeOK, BatchTypeOK, CloseBegins
<1>17. CASE CloseMarks  BY <1>17 DEF TypeOK, BatchTypeOK, CloseMarks
<1>18. CASE CloseFd  BY <1>18 DEF TypeOK, BatchTypeOK, CloseFd
<1>19. CASE ProcessEnds  BY <1>19 DEF TypeOK, BatchTypeOK, ProcessEnds, NewProcess
<1>20. CASE PowerLoss  BY <1>20 DEF TypeOK, BatchTypeOK, PowerLoss, NewProcess
<1>21. CASE UNCHANGED vars  BY <1>21 DEF TypeOK, BatchTypeOK, vars
<1>. QED
  BY <1>1, <1>2, <1>3, <1>4, <1>5, <1>6, <1>7, <1>8, <1>9, <1>10, <1>11, <1>12, <1>13,
     <1>14, <1>15, <1>16, <1>17, <1>18, <1>19, <1>20, <1>21
  DEF Next, ThreadStep, CloseStep

(* Every step keeps the threads within their types. *)
LEMMA ThreadTypeStep == TypeOK /\ [Next]_vars => ThreadTypeOK'
<1>. SUFFICES ASSUME TypeOK, [Next]_vars PROVE ThreadTypeOK'
  OBVIOUS
<1>. USE SinkAssumption DEF filevars, genvars, statevars, batchvars, threadvars, histvars
<1>1. CASE OpenExisting  BY <1>1 DEF TypeOK, ThreadTypeOK, OpenExisting
<1>2. CASE CreateFile  BY <1>2 DEF TypeOK, ThreadTypeOK, CreateFile
<1>3. CASE FsyncParent  BY <1>3 DEF TypeOK, ThreadTypeOK, FsyncParent
<1>4. CASE FsyncParentFails  BY <1>4 DEF TypeOK, ThreadTypeOK, FsyncParentFails
<1>5. ASSUME NEW t \in Threads, Append(t) PROVE ThreadTypeOK'
  BY <1>5 DEF TypeOK, ThreadTypeOK, SinkTypeOK, Append
<1>6. ASSUME NEW t \in Threads, AppendFails(t) PROVE ThreadTypeOK'
  BY <1>6 DEF TypeOK, ThreadTypeOK, AppendFails, Notified
<1>7. ASSUME NEW t \in Threads, RaiseUnavailable(t) PROVE ThreadTypeOK'
  BY <1>7 DEF TypeOK, ThreadTypeOK, RaiseUnavailable
<1>8. ASSUME NEW t \in Threads, TakeReceipt(t) PROVE ThreadTypeOK'
  <2>1. base + generation[t] \in Nat  BY DEF TypeOK, SinkTypeOK, ThreadTypeOK
  <2>2. acked' \subseteq acked \union {base + generation[t]}  BY <1>8 DEF TakeReceipt
  <2>3. pc' \in [Threads -> {"idle", "awaiting", "waiting"} \union Leading]
    BY <1>8 DEF TypeOK, ThreadTypeOK, TakeReceipt, Notified
  <2>. QED  BY <1>8, <2>1, <2>2, <2>3 DEF TypeOK, ThreadTypeOK, TakeReceipt
<1>9. ASSUME NEW t \in Threads, BecomeLeaderOrWait(t) PROVE ThreadTypeOK'
  BY <1>9 DEF TypeOK, ThreadTypeOK, BecomeLeaderOrWait, Leading
<1>10. ASSUME NEW t \in Threads, LeaderRaises(t) PROVE ThreadTypeOK'
  BY <1>10 DEF TypeOK, ThreadTypeOK, LeaderRaises
<1>11. ASSUME NEW t \in Threads, CaptureTarget(t) PROVE ThreadTypeOK'
  BY <1>11 DEF TypeOK, ThreadTypeOK, SinkTypeOK, CaptureTarget, Leading
<1>12. ASSUME NEW t \in Threads, SyncSucceeds(t) PROVE ThreadTypeOK'
  BY <1>12 DEF TypeOK, ThreadTypeOK, SyncSucceeds, Leading
<1>13. ASSUME NEW t \in Threads, SyncFails(t) PROVE ThreadTypeOK'
  BY <1>13 DEF TypeOK, ThreadTypeOK, SyncFails, Leading
<1>14. ASSUME NEW t \in Threads, PoisonSink(t) PROVE ThreadTypeOK'
  BY <1>14 DEF TypeOK, ThreadTypeOK, PoisonSink, Notified
<1>15. ASSUME NEW t \in Threads, PublishBatch(t) PROVE ThreadTypeOK'
  BY <1>15 DEF TypeOK, ThreadTypeOK, PublishBatch, Notified
<1>16. CASE CloseBegins  BY <1>16 DEF TypeOK, ThreadTypeOK, CloseBegins
<1>17. CASE CloseMarks  BY <1>17 DEF TypeOK, ThreadTypeOK, CloseMarks, Notified
<1>18. CASE CloseFd  BY <1>18 DEF TypeOK, ThreadTypeOK, CloseFd
<1>19. CASE ProcessEnds  BY <1>19 DEF TypeOK, ThreadTypeOK, ProcessEnds, NewProcess, CountRestart
<1>20. CASE PowerLoss
  <2>1. /\ NewProcess /\ CountRestart /\ name_abandoned' = FALSE
        /\ lost_with_name' = acked \/ lost_with_name' = lost_with_name
    BY <1>20 DEF PowerLoss
  <2>2. /\ pc' \in [Threads -> {"idle", "awaiting", "waiting"} \union Leading]
        /\ generation' \in [Threads -> Nat] /\ previous_durable' \in [Threads -> Nat]
        /\ target_generation' \in [Threads -> Nat]
    BY <2>1 DEF NewProcess
  <2>3. acked' \subseteq Nat /\ restarts' \in Nat
    BY <2>1 DEF TypeOK, ThreadTypeOK, NewProcess, CountRestart
  <2>4. lost_with_name' \subseteq acked'
    BY <2>1 DEF TypeOK, ThreadTypeOK, NewProcess
  <2>. QED  BY <2>1, <2>2, <2>3, <2>4 DEF ThreadTypeOK
<1>21. CASE UNCHANGED vars  BY <1>21 DEF TypeOK, ThreadTypeOK, vars
<1>. QED
  BY <1>1, <1>2, <1>3, <1>4, <1>5, <1>6, <1>7, <1>8, <1>9, <1>10, <1>11, <1>12, <1>13,
     <1>14, <1>15, <1>16, <1>17, <1>18, <1>19, <1>20, <1>21
  DEF Next, ThreadStep, CloseStep

(* Every variable of the audit sink stays within its type.                 *)
THEOREM TypeCorrect == Spec => []TypeOK
<1>1. Init => TypeOK
  <2>. SUFFICES ASSUME Init PROVE TypeOK  OBVIOUS
  <2>1. FileTypeOK  BY DEF Init, FileTypeOK
  <2>2. FlagTypeOK  BY DEF Init, FlagTypeOK
  <2>3. SinkTypeOK  BY DEF Init, SinkTypeOK
  <2>4. BatchTypeOK  BY DEF Init, BatchTypeOK
  <2>5. ThreadTypeOK  BY DEF Init, ThreadTypeOK
  <2>. QED  BY <2>1, <2>2, <2>3, <2>4, <2>5 DEF TypeOK
<1>2. TypeOK /\ [Next]_vars => TypeOK'
  BY FileTypeStep, FlagTypeStep, SinkTypeStep, BatchTypeStep, ThreadTypeStep DEF TypeOK
<1>. QED  BY <1>1, <1>2, PTL DEF Spec

-----------------------------------------------------------------------------
(* Every step keeps at most one leader, and sleepers only behind it. *)
LEMMA LeaderInvStep == TypeOK /\ SinkInv /\ [Next]_vars => LeaderInv'
<1>. SUFFICES ASSUME TypeOK, SinkInv, [Next]_vars PROVE LeaderInv'
  OBVIOUS
<1>. USE SinkAssumption DEF TypeOK, SinkInv, filevars, genvars, statevars, batchvars, threadvars, histvars
<1>1. CASE OpenExisting
  BY <1>1 DEF LeaderInv, CloseInv, ThreadTypeOK, FlagTypeOK, OpenExisting, Leading, Available
<1>2. CASE CreateFile
  BY <1>2 DEF LeaderInv, CloseInv, ThreadTypeOK, FlagTypeOK, CreateFile, Leading, Available
<1>3. CASE FsyncParent
  BY <1>3 DEF LeaderInv, CloseInv, ThreadTypeOK, FlagTypeOK, FsyncParent, Leading, Available
<1>4. CASE FsyncParentFails
  BY <1>4 DEF LeaderInv, CloseInv, ThreadTypeOK, FlagTypeOK, FsyncParentFails, Leading,
     Available
<1>5. ASSUME NEW t \in Threads, Append(t) PROVE LeaderInv'
  BY <1>5 DEF LeaderInv, CloseInv, ThreadTypeOK, FlagTypeOK, Append, Leading, Available
<1>6. ASSUME NEW t \in Threads, AppendFails(t) PROVE LeaderInv'
  BY <1>6 DEF LeaderInv, CloseInv, ThreadTypeOK, FlagTypeOK, AppendFails, Notified,
     Leading, Available
<1>7. ASSUME NEW t \in Threads, RaiseUnavailable(t) PROVE LeaderInv'
  BY <1>7 DEF LeaderInv, CloseInv, ThreadTypeOK, FlagTypeOK, RaiseUnavailable, Leading,
     Available
<1>8. ASSUME NEW t \in Threads, TakeReceipt(t) PROVE LeaderInv'
  BY <1>8 DEF LeaderInv, CloseInv, ThreadTypeOK, FlagTypeOK, TakeReceipt, Notified,
     Leading, Available
<1>9. ASSUME NEW t \in Threads, BecomeLeaderOrWait(t) PROVE LeaderInv'
  BY <1>9 DEF LeaderInv, CloseInv, ThreadTypeOK, FlagTypeOK, BecomeLeaderOrWait, Leading,
     Available
<1>10. ASSUME NEW t \in Threads, LeaderRaises(t) PROVE LeaderInv'
  BY <1>10 DEF LeaderInv, CloseInv, ThreadTypeOK, FlagTypeOK, LeaderRaises, Leading, Available
<1>11. ASSUME NEW t \in Threads, CaptureTarget(t) PROVE LeaderInv'
  BY <1>11 DEF LeaderInv, CloseInv, ThreadTypeOK, FlagTypeOK, CaptureTarget, Leading, Available
<1>12. ASSUME NEW t \in Threads, SyncSucceeds(t) PROVE LeaderInv'
  BY <1>12 DEF LeaderInv, CloseInv, ThreadTypeOK, FlagTypeOK, SyncSucceeds, Leading, Available
<1>13. ASSUME NEW t \in Threads, SyncFails(t) PROVE LeaderInv'
  BY <1>13 DEF LeaderInv, CloseInv, ThreadTypeOK, FlagTypeOK, SyncFails, Leading, Available
<1>14. ASSUME NEW t \in Threads, PoisonSink(t) PROVE LeaderInv'
  BY <1>14 DEF LeaderInv, CloseInv, ThreadTypeOK, FlagTypeOK, PoisonSink, Notified,
     Leading, Available
<1>15. ASSUME NEW t \in Threads, PublishBatch(t) PROVE LeaderInv'
  BY <1>15 DEF LeaderInv, CloseInv, ThreadTypeOK, FlagTypeOK, PublishBatch, Notified,
     Leading, Available
<1>16. CASE CloseBegins
  BY <1>16 DEF LeaderInv, CloseInv, ThreadTypeOK, FlagTypeOK, CloseBegins, Leading, Available
<1>17. CASE CloseMarks
  BY <1>17 DEF LeaderInv, CloseInv, ThreadTypeOK, FlagTypeOK, CloseMarks, Notified,
     Leading, Available
<1>18. CASE CloseFd
  BY <1>18 DEF LeaderInv, CloseInv, ThreadTypeOK, FlagTypeOK, CloseFd, Leading, Available
<1>19. CASE ProcessEnds
  BY <1>19 DEF LeaderInv, CloseInv, ThreadTypeOK, FlagTypeOK, ProcessEnds, NewProcess,
     Leading, Available
<1>20. CASE PowerLoss
  BY <1>20 DEF LeaderInv, CloseInv, ThreadTypeOK, FlagTypeOK, PowerLoss, NewProcess,
     Leading, Available
<1>21. CASE UNCHANGED vars
  BY <1>21 DEF LeaderInv, vars, Available, Records
<1>. QED
  BY <1>1, <1>2, <1>3, <1>4, <1>5, <1>6, <1>7, <1>8, <1>9, <1>10, <1>11, <1>12, <1>13,
     <1>14, <1>15, <1>16, <1>17, <1>18, <1>19, <1>20, <1>21
  DEF Next, ThreadStep, CloseStep

(* Every step keeps threads and leaders off a closed sink. *)
LEMMA CloseInvStep == TypeOK /\ SinkInv /\ [Next]_vars => CloseInv'
<1>. SUFFICES ASSUME TypeOK, SinkInv, [Next]_vars PROVE CloseInv'
  OBVIOUS
<1>. USE SinkAssumption DEF TypeOK, SinkInv, filevars, genvars, statevars, batchvars, threadvars, histvars
<1>1. CASE OpenExisting
  BY <1>1 DEF CloseInv, LeaderInv, ThreadTypeOK, OpenExisting, Leading, Available
<1>2. CASE CreateFile
  BY <1>2 DEF CloseInv, LeaderInv, ThreadTypeOK, CreateFile, Leading, Available
<1>3. CASE FsyncParent
  BY <1>3 DEF CloseInv, LeaderInv, ThreadTypeOK, FsyncParent, Leading, Available
<1>4. CASE FsyncParentFails
  BY <1>4 DEF CloseInv, LeaderInv, ThreadTypeOK, FsyncParentFails, Leading, Available
<1>5. ASSUME NEW t \in Threads, Append(t) PROVE CloseInv'
  BY <1>5 DEF CloseInv, LeaderInv, ThreadTypeOK, Append, Leading, Available
<1>6. ASSUME NEW t \in Threads, AppendFails(t) PROVE CloseInv'
  BY <1>6 DEF CloseInv, LeaderInv, ThreadTypeOK, AppendFails, Notified, Leading, Available
<1>7. ASSUME NEW t \in Threads, RaiseUnavailable(t) PROVE CloseInv'
  BY <1>7 DEF CloseInv, LeaderInv, ThreadTypeOK, RaiseUnavailable, Leading, Available
<1>8. ASSUME NEW t \in Threads, TakeReceipt(t) PROVE CloseInv'
  BY <1>8 DEF CloseInv, LeaderInv, ThreadTypeOK, TakeReceipt, Notified, Leading, Available
<1>9. ASSUME NEW t \in Threads, BecomeLeaderOrWait(t) PROVE CloseInv'
  BY <1>9 DEF CloseInv, LeaderInv, ThreadTypeOK, BecomeLeaderOrWait, Leading, Available
<1>10. ASSUME NEW t \in Threads, LeaderRaises(t) PROVE CloseInv'
  BY <1>10 DEF CloseInv, LeaderInv, ThreadTypeOK, LeaderRaises, Leading, Available
<1>11. ASSUME NEW t \in Threads, CaptureTarget(t) PROVE CloseInv'
  BY <1>11 DEF CloseInv, LeaderInv, ThreadTypeOK, CaptureTarget, Leading, Available
<1>12. ASSUME NEW t \in Threads, SyncSucceeds(t) PROVE CloseInv'
  BY <1>12 DEF CloseInv, LeaderInv, ThreadTypeOK, SyncSucceeds, Leading, Available
<1>13. ASSUME NEW t \in Threads, SyncFails(t) PROVE CloseInv'
  BY <1>13 DEF CloseInv, LeaderInv, ThreadTypeOK, SyncFails, Leading, Available
<1>14. ASSUME NEW t \in Threads, PoisonSink(t) PROVE CloseInv'
  BY <1>14 DEF CloseInv, LeaderInv, ThreadTypeOK, PoisonSink, Notified, Leading, Available
<1>15. ASSUME NEW t \in Threads, PublishBatch(t) PROVE CloseInv'
  BY <1>15 DEF CloseInv, LeaderInv, ThreadTypeOK, PublishBatch, Notified, Leading, Available
<1>16. CASE CloseBegins
  BY <1>16 DEF CloseInv, LeaderInv, ThreadTypeOK, CloseBegins, Leading, Available
<1>17. CASE CloseMarks
  BY <1>17 DEF CloseInv, LeaderInv, ThreadTypeOK, CloseMarks, Notified, Leading, Available
<1>18. CASE CloseFd
  BY <1>18 DEF CloseInv, LeaderInv, ThreadTypeOK, CloseFd, Leading, Available
<1>19. CASE ProcessEnds
  BY <1>19 DEF CloseInv, LeaderInv, ThreadTypeOK, ProcessEnds, NewProcess, Leading, Available
<1>20. CASE PowerLoss
  BY <1>20 DEF CloseInv, LeaderInv, ThreadTypeOK, PowerLoss, NewProcess, Leading, Available
<1>21. CASE UNCHANGED vars
  BY <1>21 DEF CloseInv, vars, Available, Records
<1>. QED
  BY <1>1, <1>2, <1>3, <1>4, <1>5, <1>6, <1>7, <1>8, <1>9, <1>10, <1>11, <1>12, <1>13,
     <1>14, <1>15, <1>16, <1>17, <1>18, <1>19, <1>20, <1>21
  DEF Next, ThreadStep, CloseStep

(* Every step keeps generations and pages in range. *)
LEMMA RangeInvStep == TypeOK /\ SinkInv /\ [Next]_vars => RangeInv'
<1>. SUFFICES ASSUME TypeOK, SinkInv, [Next]_vars PROVE RangeInv'
  OBVIOUS
<1>. USE SinkAssumption DEF TypeOK, SinkInv, filevars, genvars, statevars, batchvars, threadvars, histvars
<1>1. CASE OpenExisting
  BY <1>1 DEF RangeInv, LeaderInv, CloseInv, SinkTypeOK, ThreadTypeOK, OpenExisting
<1>2. CASE CreateFile
  BY <1>2 DEF RangeInv, LeaderInv, CloseInv, SinkTypeOK, ThreadTypeOK, CreateFile
<1>3. CASE FsyncParent
  BY <1>3 DEF RangeInv, LeaderInv, CloseInv, SinkTypeOK, ThreadTypeOK, FsyncParent
<1>4. CASE FsyncParentFails
  BY <1>4 DEF RangeInv, LeaderInv, CloseInv, SinkTypeOK, ThreadTypeOK, FsyncParentFails
<1>5. ASSUME NEW t \in Threads, Append(t) PROVE RangeInv'
  BY <1>5 DEF RangeInv, LeaderInv, CloseInv, SinkTypeOK, ThreadTypeOK, Append
<1>6. ASSUME NEW t \in Threads, AppendFails(t) PROVE RangeInv'
  BY <1>6 DEF RangeInv, LeaderInv, CloseInv, SinkTypeOK, ThreadTypeOK, AppendFails, Notified
<1>7. ASSUME NEW t \in Threads, RaiseUnavailable(t) PROVE RangeInv'
  BY <1>7 DEF RangeInv, LeaderInv, CloseInv, SinkTypeOK, ThreadTypeOK, RaiseUnavailable
<1>8. ASSUME NEW t \in Threads, TakeReceipt(t) PROVE RangeInv'
  BY <1>8 DEF RangeInv, LeaderInv, CloseInv, SinkTypeOK, ThreadTypeOK, TakeReceipt, Notified
<1>9. ASSUME NEW t \in Threads, BecomeLeaderOrWait(t) PROVE RangeInv'
  BY <1>9 DEF RangeInv, LeaderInv, CloseInv, SinkTypeOK, ThreadTypeOK, BecomeLeaderOrWait,
     Leading
<1>10. ASSUME NEW t \in Threads, LeaderRaises(t) PROVE RangeInv'
  BY <1>10 DEF RangeInv, LeaderInv, CloseInv, SinkTypeOK, ThreadTypeOK, LeaderRaises
<1>11. ASSUME NEW t \in Threads, CaptureTarget(t) PROVE RangeInv'
  BY <1>11 DEF RangeInv, LeaderInv, CloseInv, SinkTypeOK, ThreadTypeOK, CaptureTarget, Leading
<1>12. ASSUME NEW t \in Threads, SyncSucceeds(t) PROVE RangeInv'
  BY <1>12 DEF RangeInv, LeaderInv, CloseInv, SinkTypeOK, ThreadTypeOK, SyncSucceeds
<1>13. ASSUME NEW t \in Threads, SyncFails(t) PROVE RangeInv'
  BY <1>13 DEF RangeInv, LeaderInv, CloseInv, SinkTypeOK, ThreadTypeOK, SyncFails
<1>14. ASSUME NEW t \in Threads, PoisonSink(t) PROVE RangeInv'
  BY <1>14 DEF RangeInv, LeaderInv, CloseInv, SinkTypeOK, ThreadTypeOK, PoisonSink, Notified
<1>15. ASSUME NEW t \in Threads, PublishBatch(t) PROVE RangeInv'
  BY <1>15 DEF RangeInv, LeaderInv, CloseInv, SinkTypeOK, ThreadTypeOK, PublishBatch,
     Notified, Leading
<1>16. CASE CloseBegins
  BY <1>16 DEF RangeInv, LeaderInv, CloseInv, SinkTypeOK, ThreadTypeOK, CloseBegins
<1>17. CASE CloseMarks
  BY <1>17 DEF RangeInv, LeaderInv, CloseInv, SinkTypeOK, ThreadTypeOK, CloseMarks, Notified
<1>18. CASE CloseFd
  BY <1>18 DEF RangeInv, LeaderInv, CloseInv, SinkTypeOK, ThreadTypeOK, CloseFd
<1>19. CASE ProcessEnds
  BY <1>19 DEF RangeInv, LeaderInv, CloseInv, SinkTypeOK, ThreadTypeOK, ProcessEnds, NewProcess
<1>20. CASE PowerLoss
  BY <1>20 DEF RangeInv, LeaderInv, CloseInv, SinkTypeOK, ThreadTypeOK, PowerLoss, NewProcess
<1>21. CASE UNCHANGED vars
  BY <1>21 DEF RangeInv, vars, Available, Records
<1>. QED
  BY <1>1, <1>2, <1>3, <1>4, <1>5, <1>6, <1>7, <1>8, <1>9, <1>10, <1>11, <1>12, <1>13,
     <1>14, <1>15, <1>16, <1>17, <1>18, <1>19, <1>20, <1>21
  DEF Next, ThreadStep, CloseStep

(* Every step keeps the promise that unsynced pages are still dirty. *)
LEMMA PagesInvStep == TypeOK /\ SinkInv /\ [Next]_vars => PagesInv'
<1>. SUFFICES ASSUME TypeOK, SinkInv, [Next]_vars PROVE PagesInv'
  OBVIOUS
<1>. USE SinkAssumption DEF TypeOK, SinkInv, filevars, genvars, statevars, batchvars, threadvars, histvars
<1>1. CASE OpenExisting
  BY <1>1 DEF PagesInv, RangeInv, LeaderInv, SinkTypeOK, ThreadTypeOK, OpenExisting, Records
<1>2. CASE CreateFile
  BY <1>2 DEF PagesInv, RangeInv, LeaderInv, SinkTypeOK, ThreadTypeOK, CreateFile, Records
<1>3. CASE FsyncParent
  BY <1>3 DEF PagesInv, RangeInv, LeaderInv, SinkTypeOK, ThreadTypeOK, FsyncParent, Records
<1>4. CASE FsyncParentFails
  BY <1>4 DEF PagesInv, RangeInv, LeaderInv, SinkTypeOK, ThreadTypeOK, FsyncParentFails,
     Records
<1>5. ASSUME NEW t \in Threads, Append(t) PROVE PagesInv'
  BY <1>5 DEF PagesInv, RangeInv, LeaderInv, SinkTypeOK, ThreadTypeOK, Append, Records
<1>6. ASSUME NEW t \in Threads, AppendFails(t) PROVE PagesInv'
  BY <1>6 DEF PagesInv, RangeInv, LeaderInv, SinkTypeOK, ThreadTypeOK, AppendFails,
     Notified, Records
<1>7. ASSUME NEW t \in Threads, RaiseUnavailable(t) PROVE PagesInv'
  BY <1>7 DEF PagesInv, RangeInv, LeaderInv, SinkTypeOK, ThreadTypeOK, RaiseUnavailable,
     Records
<1>8. ASSUME NEW t \in Threads, TakeReceipt(t) PROVE PagesInv'
  <2>1. ~failure /\ UNCHANGED <<base, write_generation, durable_generation, dirty, disk,
                                target_generation>>
    BY <1>8 DEF TakeReceipt, Available
  <2>2. \A u \in Threads : pc[u] \in Leading \/ pc'[u] \in Leading => pc'[u] = pc[u]
    BY <1>8 DEF ThreadTypeOK, TakeReceipt, Notified, Leading
  <2>. QED  BY <2>1, <2>2 DEF PagesInv, Records, Leading
<1>9. ASSUME NEW t \in Threads, BecomeLeaderOrWait(t) PROVE PagesInv'
  BY <1>9 DEF PagesInv, RangeInv, LeaderInv, SinkTypeOK, ThreadTypeOK, BecomeLeaderOrWait,
     Records
<1>10. ASSUME NEW t \in Threads, LeaderRaises(t) PROVE PagesInv'
  BY <1>10 DEF PagesInv, RangeInv, LeaderInv, SinkTypeOK, ThreadTypeOK, LeaderRaises, Records
<1>11. ASSUME NEW t \in Threads, CaptureTarget(t) PROVE PagesInv'
  <2>1. \A u \in Threads : pc[u] # "sync_failed"
    BY <1>11 DEF LeaderInv, CaptureTarget, Leading
  <2>2. Records(write_generation) \subseteq dirty \union disk
    BY <1>11, <2>1 DEF PagesInv, CaptureTarget, Available
  <2>. QED  BY <1>11, <2>1, <2>2 DEF PagesInv, ThreadTypeOK, CaptureTarget, Records
<1>12. ASSUME NEW t \in Threads, SyncSucceeds(t) PROVE PagesInv'
  BY <1>12 DEF PagesInv, RangeInv, LeaderInv, SinkTypeOK, ThreadTypeOK, SyncSucceeds,
     Records, Leading
<1>13. ASSUME NEW t \in Threads, SyncFails(t) PROVE PagesInv'
  BY <1>13 DEF PagesInv, RangeInv, LeaderInv, SinkTypeOK, ThreadTypeOK, SyncFails, Records,
     Leading
<1>14. ASSUME NEW t \in Threads, PoisonSink(t) PROVE PagesInv'
  BY <1>14 DEF PagesInv, RangeInv, LeaderInv, SinkTypeOK, ThreadTypeOK, PoisonSink,
     Notified, Records, Leading
<1>15. ASSUME NEW t \in Threads, PublishBatch(t) PROVE PagesInv'
  BY <1>15 DEF PagesInv, RangeInv, LeaderInv, SinkTypeOK, ThreadTypeOK, PublishBatch,
     Notified, Records
<1>16. CASE CloseBegins
  BY <1>16 DEF PagesInv, RangeInv, LeaderInv, SinkTypeOK, ThreadTypeOK, CloseBegins, Records
<1>17. CASE CloseMarks
  BY <1>17 DEF PagesInv, RangeInv, LeaderInv, SinkTypeOK, ThreadTypeOK, CloseMarks,
     Notified, Records
<1>18. CASE CloseFd
  BY <1>18 DEF PagesInv, RangeInv, LeaderInv, SinkTypeOK, ThreadTypeOK, CloseFd, Records
<1>19. CASE ProcessEnds
  BY <1>19 DEF PagesInv, RangeInv, LeaderInv, SinkTypeOK, ThreadTypeOK, ProcessEnds,
     NewProcess, Records
<1>20. CASE PowerLoss
  BY <1>20 DEF PagesInv, RangeInv, LeaderInv, SinkTypeOK, ThreadTypeOK, PowerLoss,
     NewProcess, Records
<1>21. CASE UNCHANGED vars
  BY <1>21 DEF PagesInv, vars, Available, Records
<1>. QED
  BY <1>1, <1>2, <1>3, <1>4, <1>5, <1>6, <1>7, <1>8, <1>9, <1>10, <1>11, <1>12, <1>13,
     <1>14, <1>15, <1>16, <1>17, <1>18, <1>19, <1>20, <1>21
  DEF Next, ThreadStep, CloseStep

(* Every step keeps receipts and acknowledgements apart. *)
LEMMA ReceiptInvStep == TypeOK /\ SinkInv /\ [Next]_vars => ReceiptInv'
<1>. SUFFICES ASSUME TypeOK, SinkInv, [Next]_vars PROVE ReceiptInv'
  OBVIOUS
<1>. USE SinkAssumption DEF TypeOK, SinkInv, filevars, genvars, statevars, batchvars, threadvars, histvars
<1>1. CASE OpenExisting
  BY <1>1 DEF ReceiptInv, RangeInv, PagesInv, SinkTypeOK, ThreadTypeOK, BatchTypeOK,
     OpenExisting
<1>2. CASE CreateFile
  BY <1>2 DEF ReceiptInv, RangeInv, PagesInv, SinkTypeOK, ThreadTypeOK, BatchTypeOK, CreateFile
<1>3. CASE FsyncParent
  BY <1>3 DEF ReceiptInv, RangeInv, PagesInv, SinkTypeOK, ThreadTypeOK, BatchTypeOK,
     FsyncParent
<1>4. CASE FsyncParentFails
  BY <1>4 DEF ReceiptInv, RangeInv, PagesInv, SinkTypeOK, ThreadTypeOK, BatchTypeOK,
     FsyncParentFails
<1>5. ASSUME NEW t \in Threads, Append(t) PROVE ReceiptInv'
  BY <1>5 DEF ReceiptInv, RangeInv, PagesInv, SinkTypeOK, ThreadTypeOK, BatchTypeOK, Append
<1>6. ASSUME NEW t \in Threads, AppendFails(t) PROVE ReceiptInv'
  BY <1>6 DEF ReceiptInv, RangeInv, PagesInv, SinkTypeOK, ThreadTypeOK, BatchTypeOK,
     AppendFails, Notified
<1>7. ASSUME NEW t \in Threads, RaiseUnavailable(t) PROVE ReceiptInv'
  BY <1>7 DEF ReceiptInv, RangeInv, PagesInv, SinkTypeOK, ThreadTypeOK, BatchTypeOK,
     RaiseUnavailable
<1>8. ASSUME NEW t \in Threads, TakeReceipt(t) PROVE ReceiptInv'
  <2>1. base + generation[t] \in Records(durable_generation)
    BY <1>8 DEF RangeInv, SinkTypeOK, ThreadTypeOK, TakeReceipt, Records
  <2>2. acked' \subseteq acked \union {base + generation[t]}
    BY <1>8 DEF TakeReceipt
  <2>3. \A r \in batch_receipts' : r \in batch_receipts /\ r.gen # generation[t]
    BY <1>8 DEF TakeReceipt
  <2>4. UNCHANGED <<base, durable_generation, disk>>
    BY <1>8 DEF TakeReceipt
  <2>5. \A r \in batch_receipts' : base + r.gen # base + generation[t]
    BY <2>3 DEF BatchTypeOK, Receipt, SinkTypeOK, ThreadTypeOK
  <2>6. acked' \subseteq disk'
    BY <2>1, <2>2, <2>4 DEF ReceiptInv, PagesInv
  <2>7. \A a \in acked' : a <= base' + durable_generation'
    BY <2>1, <2>2, <2>4 DEF ReceiptInv, SinkTypeOK, Records
  <2>. QED  BY <2>2, <2>3, <2>4, <2>5, <2>6, <2>7 DEF ReceiptInv
<1>9. ASSUME NEW t \in Threads, BecomeLeaderOrWait(t) PROVE ReceiptInv'
  BY <1>9 DEF ReceiptInv, RangeInv, PagesInv, SinkTypeOK, ThreadTypeOK, BatchTypeOK,
     BecomeLeaderOrWait
<1>10. ASSUME NEW t \in Threads, LeaderRaises(t) PROVE ReceiptInv'
  BY <1>10 DEF ReceiptInv, RangeInv, PagesInv, SinkTypeOK, ThreadTypeOK, BatchTypeOK,
     LeaderRaises
<1>11. ASSUME NEW t \in Threads, CaptureTarget(t) PROVE ReceiptInv'
  BY <1>11 DEF ReceiptInv, RangeInv, PagesInv, SinkTypeOK, ThreadTypeOK, BatchTypeOK,
     CaptureTarget
<1>12. ASSUME NEW t \in Threads, SyncSucceeds(t) PROVE ReceiptInv'
  BY <1>12 DEF ReceiptInv, RangeInv, PagesInv, SinkTypeOK, ThreadTypeOK, BatchTypeOK,
     SyncSucceeds
<1>13. ASSUME NEW t \in Threads, SyncFails(t) PROVE ReceiptInv'
  BY <1>13 DEF ReceiptInv, RangeInv, PagesInv, SinkTypeOK, ThreadTypeOK, BatchTypeOK, SyncFails
<1>14. ASSUME NEW t \in Threads, PoisonSink(t) PROVE ReceiptInv'
  BY <1>14 DEF ReceiptInv, RangeInv, PagesInv, SinkTypeOK, ThreadTypeOK, BatchTypeOK,
     PoisonSink, Notified
<1>15. ASSUME NEW t \in Threads, PublishBatch(t) PROVE ReceiptInv'
  <2>1. previous_durable[t] = durable_generation
    BY <1>15 DEF RangeInv, PublishBatch
  <2>2. durable_generation' >= durable_generation /\ durable_generation' >= target_generation[t]
    BY <1>15 DEF SinkTypeOK, ThreadTypeOK, PublishBatch
  <2>3. UNCHANGED <<base, acked, disk>>
    BY <1>15 DEF PublishBatch
  <2>4. ASSUME NEW r \in batch_receipts' \ batch_receipts
        PROVE  r.gen \in (durable_generation + 1)..target_generation[t]
    BY <1>15, <2>1 DEF PublishBatch, Receipts
  <2>5. durable_generation \in Nat /\ durable_generation' \in Nat /\ base \in Nat
        /\ target_generation[t] \in Nat
    BY <1>15 DEF SinkTypeOK, ThreadTypeOK, PublishBatch
  <2>6. \A a \in acked : a \in Nat /\ a <= base + durable_generation
    BY DEF ReceiptInv, ThreadTypeOK
  <2>7. \A r \in batch_receipts : r.gen \in Nat
    BY DEF BatchTypeOK, Receipt
  <2>8. \A r \in batch_receipts' : r.gen <= durable_generation' /\ base + r.gen \notin acked
    <3>. SUFFICES ASSUME NEW r \in batch_receipts'
                  PROVE  r.gen <= durable_generation' /\ base + r.gen \notin acked
      OBVIOUS
    <3>1. CASE r \in batch_receipts  BY <3>1, <2>2, <2>5, <2>7 DEF ReceiptInv
    <3>2. CASE r \notin batch_receipts  BY <3>2, <2>2, <2>4, <2>5, <2>6
    <3>. QED  BY <3>1, <3>2
  <2>9. \A a \in acked : a <= base + durable_generation'
    BY <2>2, <2>5, <2>6
  <2>. QED  BY <2>3, <2>8, <2>9 DEF ReceiptInv
<1>16. CASE CloseBegins
  BY <1>16 DEF ReceiptInv, RangeInv, PagesInv, SinkTypeOK, ThreadTypeOK, BatchTypeOK,
     CloseBegins
<1>17. CASE CloseMarks
  BY <1>17 DEF ReceiptInv, RangeInv, PagesInv, SinkTypeOK, ThreadTypeOK, BatchTypeOK,
     CloseMarks, Notified
<1>18. CASE CloseFd
  BY <1>18 DEF ReceiptInv, RangeInv, PagesInv, SinkTypeOK, ThreadTypeOK, BatchTypeOK, CloseFd
<1>19. CASE ProcessEnds
  BY <1>19 DEF ReceiptInv, RangeInv, PagesInv, SinkTypeOK, ThreadTypeOK, BatchTypeOK,
     ProcessEnds, NewProcess
<1>20. CASE PowerLoss
  BY <1>20 DEF ReceiptInv, RangeInv, PagesInv, SinkTypeOK, ThreadTypeOK, BatchTypeOK,
     PowerLoss, NewProcess
<1>21. CASE UNCHANGED vars
  BY <1>21 DEF ReceiptInv, vars, Available, Records
<1>. QED
  BY <1>1, <1>2, <1>3, <1>4, <1>5, <1>6, <1>7, <1>8, <1>9, <1>10, <1>11, <1>12, <1>13,
     <1>14, <1>15, <1>16, <1>17, <1>18, <1>19, <1>20, <1>21
  DEF Next, ThreadStep, CloseStep

(* SinkInv is an invariant.                                                *)
LEMMA SinkInvariant == Spec => []SinkInv
<1>1. Init => SinkInv
  <2>. SUFFICES ASSUME Init PROVE SinkInv  OBVIOUS
  <2>. USE SinkAssumption DEF Init
  <2>1. LeaderInv  BY DEF LeaderInv, Leading
  <2>2. CloseInv  BY DEF CloseInv
  <2>3. RangeInv  BY DEF RangeInv
  <2>4. PagesInv  BY DEF PagesInv, Records
  <2>5. ReceiptInv  BY DEF ReceiptInv
  <2>. QED  BY <2>1, <2>2, <2>3, <2>4, <2>5 DEF SinkInv
<1>2. TypeOK /\ SinkInv /\ [Next]_vars => SinkInv'
  BY LeaderInvStep, CloseInvStep, RangeInvStep, PagesInvStep, ReceiptInvStep DEF SinkInv
<1>. QED  BY <1>1, <1>2, TypeCorrect, PTL DEF Spec

(* A write that returned is on the device, under every fault: the leader's *)
(* target is captured before its sync, only one sync runs at a time, and   *)
(* a failed one, which may drop pages, poisons the sink.                   *)
THEOREM AckedRecordsAreOnDisk == Spec => []AckedIsOnDisk
<1>1. SinkInv => AckedIsOnDisk
  BY DEF SinkInv, ReceiptInv, AckedIsOnDisk
<1>. QED  BY <1>1, SinkInvariant, PTL

(* No thread sleeps in wait() without a leader that will notify it.        *)
THEOREM NoLostWakeup == Spec => []SleepersHaveALeader
<1>1. SinkInv => SleepersHaveALeader
  BY DEF SinkInv, LeaderInv, SleepersHaveALeader
<1>. QED  BY <1>1, SinkInvariant, PTL

(* close() never closes the descriptor under a running sync.               *)
THEOREM SyncsUseAnOpenFd == Spec => []SyncUsesOpenFd
<1>1. SinkInv => SyncUsesOpenFd
  BY DEF SinkInv, CloseInv, SyncUsesOpenFd, FdOpen, Leading
<1>. QED  BY <1>1, SinkInvariant, PTL

-----------------------------------------------------------------------------
(* Batches and their receipts.                                             *)

AllReceipts == batch_receipts \union delivered

(* The receipts of this process life cover what became durable in it, each *)
(* generation once, and the batches are numbered; a generation keeps its   *)
(* event type until its batch is published.                                *)
BatchInv ==
    /\ BatchesPartitionGenerations
    /\ \A r \in AllReceipts : r.batch <= sync_count
    /\ (durable_generation + 1)..write_generation \subseteq generation_event_types

(* Calls have generations of their own, and not yet their receipts.        *)
CallInv ==
    \A t \in Threads : pc[t] # "idle" =>
        /\ \A u \in Threads : pc[u] # "idle" /\ generation[u] = generation[t] => u = t
        /\ \A r \in delivered : r.gen # generation[t]

(* The batch of a sync: as many receipts as it has generations.            *)
LEMMA BatchSize ==
    ASSUME NEW first \in Nat, NEW last \in Nat, NEW batch \in Nat, NEW types, first <= last
    PROVE  Cardinality(Receipts(first, last, batch, types)) = last + 1 - first
<1>. DEFINE n == Cardinality(types \intersect (first..last))
            receipt(g) == [gen |-> g, batch |-> batch, total |-> last + 1 - first, typed |-> n]
            f == [g \in first..last |-> receipt(g)]
            S == Receipts(first, last, batch, types)
<1>1. S = {receipt(g) : g \in first..last}  BY DEF Receipts
<1>. HIDE DEF S, n
<1>2. f \in [first..last -> S]  BY <1>1
<1>3. \A g, h \in first..last : f[g] = f[h] => g = h
  <2>. SUFFICES ASSUME NEW g \in first..last, NEW h \in first..last, f[g] = f[h]
                PROVE  g = h
    OBVIOUS
  <2>1. receipt(g) = receipt(h)  OBVIOUS
  <2>2. receipt(g).gen = g /\ receipt(h).gen = h  OBVIOUS
  <2>. QED  BY <2>1, <2>2
<1>4. \A r \in S : \E g \in first..last : f[g] = r  BY <1>1
<1>5. f \in Bijection(first..last, S)
  <2>. HIDE DEF f
  <2>. QED  BY <1>2, <1>3, <1>4, Fun_IsBij
<1>6. ExistsBijection(first..last, S)
  BY <1>5, Fun_ExistsBij
<1>7. IsFiniteSet(first..last) /\ Cardinality(first..last) = last - first + 1
  BY FS_Interval
<1>. QED  BY <1>6, <1>7, FS_Bijection DEF S

(* A batch counts each of its records under its own type.                  *)
LEMMA BatchTypes ==
    ASSUME NEW first \in Nat, NEW last \in Nat, NEW batch \in Nat, NEW types,
           first <= last, first..last \subseteq types,
           NEW r \in Receipts(first, last, batch, types)
    PROVE  /\ r.gen \in first..last /\ r.batch = batch
           /\ r.total = last + 1 - first /\ r.typed = r.total
<1>1. types \intersect (first..last) = first..last  OBVIOUS
<1>2. Cardinality(first..last) = last - first + 1  BY FS_Interval
<1>3. PICK g \in first..last : r = [gen |-> g, batch |-> batch, total |-> last + 1 - first,
                                    typed |-> Cardinality(first..last)]
  BY <1>1 DEF Receipts
<1>. QED  BY <1>2, <1>3

(* Its receipts are for all of its generations.                            *)
LEMMA BatchGenerations ==
    ASSUME NEW first, NEW last, NEW batch, NEW types
    PROVE  {r.gen : r \in Receipts(first, last, batch, types)} = first..last
<1>. DEFINE S == Receipts(first, last, batch, types)
         receipt(g) == [gen |-> g, batch |-> batch, total |-> last + 1 - first,
                           typed |-> Cardinality(types \intersect (first..last))]
<1>0. S = {receipt(g) : g \in first..last}  BY DEF Receipts
<1>. HIDE DEF S
<1>1. \A r \in S : r.gen \in first..last  BY <1>0
<1>2. \A g \in first..last : \E r \in S : r.gen = g
  <2>1. \A g \in first..last : receipt(g) \in S /\ receipt(g).gen = g  BY <1>0
  <2>. HIDE DEF receipt
  <2>. QED  BY <2>1
<1>3. {r.gen : r \in S} = first..last  BY <1>1, <1>2
<1>. QED  BY <1>3 DEF S

(* Most steps touch neither receipts nor generations, and start no call.   *)
LEMMA BatchFrame ==
    ASSUME TypeOK, [Next]_vars
    PROVE  \/ \E t \in Threads : Append(t) \/ TakeReceipt(t) \/ PublishBatch(t)
           \/ NewProcess
           \/ /\ UNCHANGED <<batch_receipts, delivered, durable_generation, write_generation,
                             sync_count, generation_event_types, generation, acked, base>>
              /\ \A u \in Threads : pc'[u] # "idle" => pc[u] # "idle"
<1>. USE DEF TypeOK, ThreadTypeOK, genvars, statevars, batchvars, threadvars, histvars
<1>1. CASE OpenExisting \/ CreateFile \/ FsyncParent \/ FsyncParentFails \/ CloseBegins \/ CloseFd
           \/ UNCHANGED vars
  BY <1>1 DEF OpenExisting, CreateFile, FsyncParent, FsyncParentFails, CloseBegins, CloseFd, vars
<1>2. CASE CloseMarks
  BY <1>2 DEF CloseMarks, Notified
<1>3. ASSUME NEW t \in Threads,
             AppendFails(t) \/ RaiseUnavailable(t) \/ BecomeLeaderOrWait(t) \/ LeaderRaises(t)
      PROVE  /\ UNCHANGED <<batch_receipts, delivered, durable_generation, write_generation,
                            sync_count, generation_event_types, generation, acked, base>>
             /\ \A u \in Threads : pc'[u] # "idle" => pc[u] # "idle"
  BY <1>3 DEF AppendFails, RaiseUnavailable, BecomeLeaderOrWait, LeaderRaises, Notified
<1>4. ASSUME NEW t \in Threads,
             CaptureTarget(t) \/ SyncSucceeds(t) \/ SyncFails(t) \/ PoisonSink(t)
      PROVE  /\ UNCHANGED <<batch_receipts, delivered, durable_generation, write_generation,
                            sync_count, generation_event_types, generation, acked, base>>
             /\ \A u \in Threads : pc'[u] # "idle" => pc[u] # "idle"
  BY <1>4 DEF CaptureTarget, SyncSucceeds, SyncFails, PoisonSink, Notified
<1>5. CASE ProcessEnds \/ PowerLoss
  BY <1>5 DEF ProcessEnds, PowerLoss
<1>. QED
  BY <1>1, <1>2, <1>3, <1>4, <1>5 DEF Next, ThreadStep, CloseStep

(* Publishing a batch continues the partition of the generations.          *)
LEMMA PublishBatchPartitions ==
    ASSUME TypeOK, SinkInv, BatchInv, NEW t \in Threads, PublishBatch(t)
    PROVE  BatchInv'
<1>. DEFINE first == previous_durable[t] + 1
            last  == target_generation[t]
            new   == Receipts(first, last, sync_count + 1, generation_event_types)
<1>1. /\ first = durable_generation + 1 /\ first \in Nat /\ last \in Nat
      /\ durable_generation \in Nat /\ write_generation \in Nat /\ sync_count \in Nat
      /\ last <= write_generation
  BY DEF TypeOK, SinkTypeOK, ThreadTypeOK, SinkInv, RangeInv, PublishBatch
<1>2. /\ AllReceipts' = AllReceipts \union new /\ sync_count' = sync_count + 1
      /\ generation_event_types' = generation_event_types \ (first..last)
      /\ durable_generation' = IF last > durable_generation THEN last ELSE durable_generation
      /\ write_generation' = write_generation
  BY DEF PublishBatch, AllReceipts, histvars
<1>3. AllReceipts \subseteq Receipt
  BY DEF TypeOK, BatchTypeOK, AllReceipts
<1>4. CASE last < first
  <2>1. first..last = {}  BY <1>1, <1>4
  <2>2. new = {}  BY <2>1 DEF Receipts
  <2>3. durable_generation' = durable_generation /\ AllReceipts' = AllReceipts
        /\ generation_event_types' = generation_event_types
    BY <1>1, <1>2, <1>4, <2>1, <2>2
  <2>4. \A r \in AllReceipts : r.batch <= sync_count'
    BY <1>1, <1>2, <1>3 DEF BatchInv, Receipt
  <2>. QED
    BY <1>2, <2>3, <2>4 DEF BatchInv, BatchesPartitionGenerations, AllReceipts
<1>5. CASE first <= last
  <2>1. first..last \subseteq generation_event_types
    BY <1>1 DEF BatchInv
  <2>0. sync_count + 1 \in Nat
    BY <1>1
  <2>. HIDE DEF first, last
  <2>2. \A r \in new : /\ r.gen \in first..last /\ r.batch = sync_count + 1
                       /\ r.total = last + 1 - first /\ r.typed = r.total
    BY <1>1, <1>5, <2>0, <2>1, BatchTypes
  <2>3. Cardinality(new) = last + 1 - first
    BY <1>1, <1>5, <2>0, BatchSize
  <2>4. durable_generation' = last
    BY <1>1, <1>2, <1>5
  <2>5. \A r \in AllReceipts : r.batch <= sync_count /\ r.batch \in Nat
                               /\ r.gen \in 1..durable_generation
    BY <1>3 DEF BatchInv, BatchesPartitionGenerations, AllReceipts, Receipt
  <2>6. {r.gen : r \in new} = first..last
    BY BatchGenerations
  <2>. HIDE DEF new
  <2>7. {r.gen : r \in AllReceipts'} = 1..durable_generation'
    <3>1. {r.gen : r \in AllReceipts} = 1..durable_generation
      BY DEF BatchInv, BatchesPartitionGenerations, AllReceipts
    <3>2. {r.gen : r \in AllReceipts \union new} = (1..durable_generation) \union (first..last)
      BY <2>6, <3>1
    <3>3. (1..durable_generation) \union (first..last) = 1..last
      BY <1>1, <1>5
    <3>. QED  BY <1>2, <2>4, <3>2, <3>3
  <2>8. ASSUME NEW r \in AllReceipts', NEW s \in AllReceipts', r.gen = s.gen
        PROVE  r = s
    <3>1. CASE r \in AllReceipts /\ s \in AllReceipts
      BY <2>8, <3>1 DEF BatchInv, BatchesPartitionGenerations, AllReceipts
    <3>2. CASE r \in new /\ s \in new
      BY <2>8, <3>2 DEF new, Receipts
    <3>3. CASE \/ r \in AllReceipts /\ s \in new
               \/ r \in new /\ s \in AllReceipts
      <4>1. \A i \in 1..durable_generation : i \notin first..last
        BY <1>1
      <4>. QED  BY <2>2, <2>5, <2>8, <3>3, <4>1
    <3>. QED  BY <1>2, <3>1, <3>2, <3>3
  <2>9. ASSUME NEW r \in AllReceipts'
        PROVE  /\ r.total = Cardinality({s \in AllReceipts' : s.batch = r.batch})
               /\ r.typed = r.total
               /\ r.batch <= sync_count'
    <3>1. CASE r \in AllReceipts
      <4>1. \A s \in new : s.batch # r.batch
        BY <1>1, <2>2, <2>5, <3>1
      <4>2. {s \in AllReceipts' : s.batch = r.batch} = {s \in AllReceipts : s.batch = r.batch}
        BY <1>2, <4>1
      <4>3. r.total = Cardinality({s \in AllReceipts : s.batch = r.batch}) /\ r.typed = r.total
        BY <3>1 DEF BatchInv, BatchesPartitionGenerations, AllReceipts
      <4>4. r.batch <= sync_count'
        BY <1>1, <1>2, <2>5, <3>1
      <4>. QED  BY <4>2, <4>3, <4>4
    <3>2. CASE r \in new
      <4>1. \A s \in AllReceipts : s.batch # r.batch
        BY <1>1, <2>2, <2>5, <3>2
      <4>2. {s \in AllReceipts' : s.batch = r.batch} = new
        BY <1>2, <2>2, <3>2, <4>1
      <4>3. r.batch <= sync_count'
        BY <1>1, <1>2, <2>2, <3>2
      <4>. QED  BY <2>2, <2>3, <3>2, <4>2, <4>3
    <3>. QED  BY <1>2, <3>1, <3>2
  <2>10. (durable_generation' + 1)..write_generation' \subseteq generation_event_types'
    <3>1. ASSUME NEW g \in (last + 1)..write_generation
          PROVE  g \in generation_event_types \ (first..last)
      <4>1. g \in (durable_generation + 1)..write_generation /\ g \notin first..last
        BY <1>1, <1>5
      <4>. QED  BY <4>1 DEF BatchInv
    <3>. QED  BY <1>2, <2>4, <3>1
  <2>. QED
    BY <2>7, <2>8, <2>9, <2>10 DEF BatchInv, BatchesPartitionGenerations, AllReceipts
<1>. QED  BY <1>1, <1>4, <1>5

LEMMA BatchInvStep == TypeOK /\ SinkInv /\ BatchInv /\ [Next]_vars => BatchInv'
<1>. SUFFICES ASSUME TypeOK, SinkInv, BatchInv, [Next]_vars PROVE BatchInv'
  OBVIOUS
<1>1. ASSUME NEW t \in Threads, Append(t) PROVE BatchInv'
  <2>1. /\ UNCHANGED <<batch_receipts, delivered, durable_generation, sync_count>>
        /\ write_generation' = write_generation + 1
        /\ generation_event_types' = generation_event_types \union {write_generation + 1}
    BY <1>1 DEF Append, statevars, histvars
  <2>2. write_generation \in Nat /\ durable_generation \in Nat
    BY DEF TypeOK, SinkTypeOK
  <2>3. \A g \in (durable_generation + 1)..(write_generation + 1) :
           g \in (durable_generation + 1)..write_generation \/ g = write_generation + 1
    BY <2>2
  <2>. QED
    BY <2>1, <2>3 DEF BatchInv, BatchesPartitionGenerations, AllReceipts
<1>2. ASSUME NEW t \in Threads, TakeReceipt(t) PROVE BatchInv'
  <2>1. UNCHANGED <<durable_generation, write_generation, sync_count, generation_event_types>>
    BY <1>2 DEF TakeReceipt, genvars
  <2>2. (batch_receipts \union delivered)' = batch_receipts \union delivered
    BY <1>2 DEF TakeReceipt
  <2>. QED
    BY <2>1, <2>2 DEF BatchInv, BatchesPartitionGenerations, AllReceipts
<1>3. ASSUME NEW t \in Threads, PublishBatch(t) PROVE BatchInv'
  BY <1>3, PublishBatchPartitions
<1>4. CASE NewProcess
  <2>1. /\ batch_receipts' = {} /\ delivered' = {} /\ durable_generation' = 0
        /\ write_generation' = 0
    BY <1>4 DEF NewProcess
  <2>2. 1..0 = {} /\ (0 + 1)..0 = {}
    OBVIOUS
  <2>. QED
    BY <2>1, <2>2 DEF BatchInv, BatchesPartitionGenerations, AllReceipts
<1>5. CASE UNCHANGED <<batch_receipts, delivered, durable_generation, write_generation,
                       sync_count, generation_event_types>>
  BY <1>5 DEF BatchInv, BatchesPartitionGenerations, AllReceipts
<1>. QED  BY <1>1, <1>2, <1>3, <1>4, <1>5, BatchFrame

LEMMA CallInvStep == TypeOK /\ SinkInv /\ BatchInv /\ CallInv /\ [Next]_vars => CallInv'
<1>. SUFFICES ASSUME TypeOK, SinkInv, BatchInv, CallInv, [Next]_vars PROVE CallInv'
  OBVIOUS
<1>1. ASSUME NEW t \in Threads, Append(t) PROVE CallInv'
  <2>1. /\ generation' = [generation EXCEPT ![t] = write_generation + 1]
        /\ pc' = [pc EXCEPT ![t] = "awaiting"] /\ delivered' = delivered
    BY <1>1 DEF Append, histvars
  <2>2. /\ generation \in [Threads -> Nat] /\ DOMAIN pc = Threads
        /\ write_generation \in Nat /\ durable_generation \in Nat
    BY DEF TypeOK, ThreadTypeOK, SinkTypeOK
  <2>3. \A u \in Threads : generation[u] <= write_generation
    BY DEF SinkInv, RangeInv
  <2>4. \A r \in delivered : r.gen \in 1..durable_generation
    BY DEF BatchInv, BatchesPartitionGenerations
  <2>5. durable_generation <= write_generation
    BY DEF SinkInv, RangeInv
  <2>. QED  BY <2>1, <2>2, <2>3, <2>4, <2>5 DEF CallInv
<1>2. ASSUME NEW t \in Threads, TakeReceipt(t) PROVE CallInv'
  <2>1. /\ generation' = generation /\ pc[t] = "awaiting" /\ pc'[t] = "idle"
        /\ \A u \in Threads : pc'[u] # "idle" => pc[u] # "idle" /\ u # t
    BY <1>2 DEF TakeReceipt, Notified, TypeOK, ThreadTypeOK
  <2>2. \A r \in delivered' : r \in delivered \/ r.gen = generation[t]
    BY <1>2 DEF TakeReceipt
  <2>. QED  BY <2>1, <2>2 DEF CallInv
<1>3. ASSUME NEW t \in Threads, PublishBatch(t) PROVE CallInv'
  <2>1. UNCHANGED <<generation, delivered>> /\ pc[t] = "synced"
        /\ \A u \in Threads : pc'[u] # "idle" => pc[u] # "idle"
    BY <1>3 DEF PublishBatch, Notified, histvars, TypeOK, ThreadTypeOK
  <2>. QED  BY <2>1 DEF CallInv
<1>4. CASE NewProcess
  BY <1>4 DEF NewProcess, CallInv
<1>5. CASE /\ UNCHANGED <<generation, delivered>>
           /\ \A u \in Threads : pc'[u] # "idle" => pc[u] # "idle"
  BY <1>5 DEF CallInv
<1>. QED  BY <1>1, <1>2, <1>3, <1>4, <1>5, BatchFrame

LEMMA BatchInvariant == Spec => [](BatchInv /\ CallInv)
<1>1. Init => BatchInv /\ CallInv
  <2>1. 1..0 = {} /\ (0 + 1)..0 = {}
    OBVIOUS
  <2>. QED
    BY <2>1 DEF Init, BatchInv, BatchesPartitionGenerations, AllReceipts, CallInv
<1>2. TypeOK /\ SinkInv /\ BatchInv /\ CallInv /\ [Next]_vars => (BatchInv /\ CallInv)'
  BY BatchInvStep, CallInvStep
<1>. QED  BY <1>1, <1>2, TypeCorrect, SinkInvariant, PTL DEF Spec

(* Every generation that became durable has one receipt, and what a        *)
(* receipt says of its batch is true, whatever threads, syncs and failures *)
(* interleave.                                                             *)
THEOREM BatchesPartition == Spec => []BatchesPartitionGenerations
<1>1. BatchInv => BatchesPartitionGenerations  BY DEF BatchInv
<1>. QED  BY <1>1, BatchInvariant, PTL

(* A thread whose generation is durable finds its receipt: the branch of   *)
(* _await_durable for a missing one is dead code.                          *)
THEOREM ReceiptsAreThere == Spec => []NoReceiptIsMissing
<1>1. TypeOK /\ SinkInv /\ BatchInv /\ CallInv => NoReceiptIsMissing
  <2>. SUFFICES ASSUME TypeOK, SinkInv, BatchInv, CallInv, NEW t \in Threads,
                       pc[t] \in {"awaiting", "waiting"}, generation[t] <= durable_generation
                PROVE  \E r \in batch_receipts : r.gen = generation[t]
    BY DEF NoReceiptIsMissing
  <2>1. generation[t] \in 1..durable_generation
    BY DEF TypeOK, ThreadTypeOK, SinkTypeOK, SinkInv, RangeInv
  <2>2. PICK r \in batch_receipts \union delivered : r.gen = generation[t]
    BY <2>1 DEF BatchInv, BatchesPartitionGenerations
  <2>3. r \notin delivered
    BY <2>2 DEF CallInv
  <2>. QED  BY <2>2, <2>3
<1>. QED  BY <1>1, TypeCorrect, SinkInvariant, BatchInvariant, PTL

-----------------------------------------------------------------------------
(* The file's name.                                                        *)

(* Everything an up sink wrote can be read, and the name it was written    *)
(* under is durable unless the creator left it unsynced; without a name    *)
(* there is nothing to read, so what was acknowledged was lost with it.    *)
NameInv ==
    /\ dir_entry = "cached" => sink = "created" \/ name_abandoned
    /\ sink = "created" => dir_entry = "cached" /\ cached = {}
    /\ sink = "up" => dir_entry # "none"
    /\ dir_entry = "none" => cached = {}
    /\ closer # "none" => sink = "up"
    /\ Records(write_generation) \subseteq cached
    /\ acked \ lost_with_name \subseteq cached

LEMMA NoRecords ==
    \A b \in Nat : (b + 1)..(b + 0) = {}
OBVIOUS

LEMMA NameInvStep ==
    ASSUME TypeOK, SinkInv, NameInv, [Next]_vars
    PROVE  NameInv'
<1>. USE DEF NameInv, filevars, genvars, statevars, batchvars, threadvars, histvars
<1>1. CASE \/ OpenExisting \/ CreateFile \/ FsyncParent \/ FsyncParentFails
           \/ CloseBegins \/ CloseMarks \/ CloseFd
  <2>1. UNCHANGED <<cached, base, write_generation, acked, lost_with_name>>
    BY <1>1 DEF OpenExisting, CreateFile, FsyncParent, FsyncParentFails, CloseBegins,
       CloseMarks, CloseFd
  <2>2. Records(write_generation)' = Records(write_generation)
    BY <2>1 DEF Records
  <2>3. dir_entry \in {"none", "cached", "durable"}
    BY DEF TypeOK, FileTypeOK
  <2>. QED
    BY <1>1, <2>1, <2>2, <2>3
    DEF OpenExisting, CreateFile, FsyncParent, FsyncParentFails, CloseBegins, CloseMarks, CloseFd
<1>2. ASSUME NEW t \in Threads, Append(t) PROVE NameInv'
  <2>1. /\ UNCHANGED <<sink, dir_entry, closer, acked, base, name_abandoned, lost_with_name>>
        /\ sink = "up"
        /\ cached' = cached \union {base + write_generation + 1}
        /\ write_generation' = write_generation + 1
    BY <1>2 DEF Append
  <2>2. Records(write_generation)' \subseteq Records(write_generation) \union {base + write_generation + 1}
    BY <2>1 DEF Records, TypeOK, SinkTypeOK
  <2>. QED  BY <2>1, <2>2
<1>3. ASSUME NEW t \in Threads, TakeReceipt(t) PROVE NameInv'
  <2>1. UNCHANGED <<sink, dir_entry, closer, cached, base, write_generation, name_abandoned,
                    lost_with_name>>
    BY <1>3 DEF TakeReceipt
  <2>2. acked' \subseteq acked \union {base + generation[t]}
    BY <1>3 DEF TakeReceipt
  <2>3. base + generation[t] \in Records(write_generation)
    BY <1>3 DEF TakeReceipt, Records, SinkInv, RangeInv, TypeOK, SinkTypeOK, ThreadTypeOK
  <2>. QED  BY <2>1, <2>2, <2>3 DEF Records
<1>4. ASSUME NEW t \in Threads,
             \/ AppendFails(t) \/ RaiseUnavailable(t) \/ BecomeLeaderOrWait(t) \/ LeaderRaises(t)
             \/ CaptureTarget(t) \/ SyncSucceeds(t) \/ SyncFails(t) \/ PoisonSink(t)
             \/ PublishBatch(t)
      PROVE  NameInv'
  <2>1. UNCHANGED <<sink, dir_entry, closer, cached, base, write_generation, acked,
                    name_abandoned, lost_with_name>>
    BY <1>4 DEF AppendFails, RaiseUnavailable, BecomeLeaderOrWait, LeaderRaises, CaptureTarget,
       SyncSucceeds, SyncFails, PoisonSink, PublishBatch
  <2>. QED  BY <2>1 DEF Records
<1>5. ASSUME NewProcess
      PROVE  /\ sink' = "absent" /\ closer' = "none" /\ acked' = acked
             /\ Records(write_generation)' = {}
  <2>1. /\ sink' = "absent" /\ closer' = "none" /\ acked' = acked
        /\ write_generation' = 0 /\ base' \in Nat
    BY <1>5 DEF NewProcess, TypeOK, SinkTypeOK
  <2>. QED  BY <2>1, NoRecords DEF Records
<1>6. CASE ProcessEnds
  <2>1. UNCHANGED <<cached, dir_entry, lost_with_name>>
        /\ name_abandoned' = (name_abandoned \/ sink = "created")
    BY <1>6 DEF ProcessEnds
  <2>2. NewProcess
    BY <1>6 DEF ProcessEnds
  <2>. QED  BY <2>1, <2>2, <1>5
<1>7. CASE PowerLoss
  <2>1. NewProcess
    BY <1>7 DEF PowerLoss
  <2>2. PICK kept \in BOOLEAN :
            /\ dir_entry = "durable" => kept
            /\ dir_entry = "none" => ~kept
            /\ dir_entry' = IF kept THEN "durable" ELSE "none"
            /\ cached' = IF kept THEN cached \intersect disk' ELSE {}
            /\ lost_with_name' = IF name_abandoned /\ ~kept THEN acked ELSE lost_with_name
    BY <1>7 DEF PowerLoss
  <2>3. /\ dir_entry \in {"none", "cached", "durable"}
        /\ name_abandoned \in BOOLEAN
    BY DEF TypeOK, FileTypeOK, ThreadTypeOK
  <2>4. acked \subseteq disk'
    BY <1>7 DEF PowerLoss, SinkInv, ReceiptInv
  <2>5. CASE kept
    BY <2>1, <2>2, <2>4, <2>5, <1>5
  <2>6. CASE ~kept
    <3>1. dir_entry # "durable"
      BY <2>2, <2>6
    <3>2. ~name_abandoned => cached = {}
      BY <3>1, <2>3
    <3>. QED  BY <2>1, <2>2, <2>6, <3>2, <1>5
  <2>. QED  BY <2>2, <2>3, <2>5, <2>6
<1>8. CASE UNCHANGED vars
  BY <1>8 DEF vars, Records
<1>. QED
  BY <1>1, <1>2, <1>3, <1>4, <1>6, <1>7, <1>8 DEF Next, ThreadStep, CloseStep

(* What was acknowledged can be read after every crash and power loss,     *)
(* unless a power loss took the name its creator had not synced.           *)
THEOREM AckedRecordsSurvive == Spec => []AckedSurvives
<1>1. Init => NameInv
  BY DEF Init, NameInv, Records
<1>2. TypeOK /\ SinkInv /\ NameInv /\ [Next]_vars => NameInv'
  BY NameInvStep
<1>3. NameInv => AckedSurvives
  BY DEF NameInv, AckedSurvives
<1>. QED  BY <1>1, <1>2, <1>3, TypeCorrect, SinkInvariant, PTL DEF Spec

-----------------------------------------------------------------------------
(* A step of the sink is a step of DurableLog or leaves its state alone.   *)
LEMMA LogStep ==
    TypeOK /\ SinkInv /\ SinkInv' /\ [Next]_vars => [Log!Next]_Log!logvars
<1>. SUFFICES ASSUME TypeOK, SinkInv, SinkInv', [Next]_vars
              PROVE  [Log!Next]_Log!logvars
  OBVIOUS
<1>. USE SinkAssumption DEF TypeOK, SinkTypeOK, ThreadTypeOK, filevars, genvars, statevars,
         batchvars, threadvars, histvars
<1>1. ASSUME UNCHANGED <<base, write_generation, disk, acked>>
      PROVE  UNCHANGED Log!logvars
  BY <1>1 DEF Log!logvars
<1>2. ASSUME base' + write_generation' = base + write_generation, disk \subseteq disk',
             UNCHANGED acked
      PROVE  Log!Persist
  BY <1>2 DEF Log!Persist, SinkInv, RangeInv
<1>3. ASSUME NEW t \in Threads, Append(t) PROVE Log!Next
  <2>. DEFINE r == base + write_generation + 1
  <2>1. r \in (1..MaxRecords) \ (1..(base + write_generation))
    BY <1>3 DEF Append
  <2>2. 1..(base' + write_generation') = (1..(base + write_generation)) \union {r}
    BY <1>3 DEF Append
  <2>3. UNCHANGED <<disk, acked>>  BY <1>3 DEF Append
  <2>. QED  BY <2>1, <2>2, <2>3 DEF Log!Next, Log!Submit
<1>4. ASSUME NEW t \in Threads, TakeReceipt(t) PROVE Log!Next \/ UNCHANGED Log!logvars
  <2>. DEFINE r == base + generation[t]
  <2>1. UNCHANGED <<base, write_generation, disk>>  BY <1>4 DEF TakeReceipt
  <2>2. CASE acked' = acked  BY <2>1, <2>2, <1>1
  <2>3. CASE acked' # acked
    <3>1. PICK receipt \in batch_receipts : receipt.gen = generation[t]
      BY <1>4, <2>3 DEF TakeReceipt
    <3>2. acked' = acked \union {r}  BY <1>4, <2>3 DEF TakeReceipt
    <3>3. r \notin acked  BY <3>1 DEF SinkInv, ReceiptInv
    <3>4. r \in disk'  BY <3>2 DEF SinkInv, ReceiptInv
    <3>5. r \in 1..MaxRecords  BY <3>4, <2>1 DEF SinkInv, RangeInv
    <3>. QED  BY <2>1, <3>2, <3>3, <3>4, <3>5 DEF Log!Next, Log!Ack
  <2>. QED  BY <2>2, <2>3
<1>5. ASSUME NEW t \in Threads,
             SyncSucceeds(t) \/ SyncFails(t)
      PROVE  Log!Next
  BY <1>5, <1>2 DEF SyncSucceeds, SyncFails, Log!Next
<1>6. ASSUME NEW t \in Threads,
             \/ AppendFails(t) \/ RaiseUnavailable(t) \/ BecomeLeaderOrWait(t)
             \/ LeaderRaises(t) \/ CaptureTarget(t) \/ PoisonSink(t) \/ PublishBatch(t)
      PROVE  UNCHANGED Log!logvars
  BY <1>6, <1>1 DEF AppendFails, RaiseUnavailable, BecomeLeaderOrWait, LeaderRaises,
     CaptureTarget, PoisonSink, PublishBatch
<1>7. ASSUME \/ OpenExisting \/ CreateFile \/ FsyncParent \/ FsyncParentFails
             \/ CloseBegins \/ CloseMarks \/ CloseFd \/ UNCHANGED vars
      PROVE  UNCHANGED Log!logvars
  BY <1>7, <1>1 DEF OpenExisting, CreateFile, FsyncParent, FsyncParentFails, CloseBegins,
     CloseMarks, CloseFd, vars
<1>8. ASSUME ProcessEnds \/ PowerLoss PROVE Log!Next
  <2>1. base' = base + write_generation /\ write_generation' = 0 /\ UNCHANGED acked
    BY <1>8 DEF ProcessEnds, PowerLoss, NewProcess
  <2>2. base' + write_generation' = base + write_generation
    BY <2>1
  <2>3. disk \subseteq disk'  BY <1>8 DEF ProcessEnds, PowerLoss
  <2>. QED  BY <2>1, <2>2, <2>3, <1>2 DEF Log!Next
<1>. QED
  BY <1>3, <1>4, <1>5, <1>6, <1>7, <1>8 DEF Next, ThreadStep, CloseStep

(* The sink implements the durable log, whatever fails: it acknowledges a  *)
(* record once, and only when the device has it.                           *)
THEOREM SinkImplementsLog == Spec => ImplementsLog
<1>1. Init => Log!Init
  BY DEF Init, Log!Init
<1>. QED
  BY <1>1, LogStep, TypeCorrect, SinkInvariant, PTL DEF Spec, ImplementsLog, Log!Spec

=============================================================================
