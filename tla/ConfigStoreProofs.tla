------------------------- MODULE ConfigStoreProofs --------------------------
(* Proofs about ConfigStore, for every set of documents of each class. *)
EXTENDS ConfigStore, TLAPS

Working == {"staging", "drop", "check", "rotate", "promote", "restore", "discard"}

\* Where the two program counters can be together, and what is staged.
Control ==
  /\ upc \in {"sweep", "provision", "provisioning"} => kind = "boot"
  /\ upc \in {"sweep", "provision"} => wpc = "idle"
  /\ wpc \in Working /\ via = "provision" => upc = "provisioning"
  /\ upc = "provisioning" => via = "provision" /\ wpc \in Working
  /\ wpc \in {"mark", "raise"} => via # "provision"
  /\ wpc \in {"drop", "check", "rotate", "promote"} => staged = Payload
  /\ upc = "settle" => outcome # "none"

\* The files while nothing has put them at risk: what the swap and the loader each
\* rely on the other not to have done.
Files ==
  /\ backup \in Good \union {Absent}
  /\ primary \notin Good \union {Absent} => backup \in Good
  /\ upc = "provisioning" => primary = Absent /\ backup = Absent
  /\ via # "provision" /\ wpc \in {"check", "rotate", "restore", "discard"} => primary \in Good
  /\ via # "provision" /\ wpc = "promote" =>
       primary \in Good \/ (primary = Absent /\ backup \in Good)
  /\ upc = "recover" => udoc \in Good
  /\ upc \in {"fallback", "remove"} => udoc \in Refused
  /\ upc \in {"build", "fallback", "remove"} /\ udoc \in Refused => primary = udoc

IInv == TypeOK /\ Control /\ (Safe => Files)
-----------------------------------------------------------------------------
\* What a reload's outcome is published as.
LEMMA Outcomes ==
  /\ DOMAIN StateForOutcome = {"Loaded", "RestoredPrevious", "Refused", "Unreadable", "NoMemory"}
  /\ \A o \in DOMAIN StateForOutcome :
       StateForOutcome[o] \in {"idle", "pending", "applied", "refused", "unchecked"}
BY DEF StateForOutcome

\* Whatever the writer writes is a document.
LEMMA PayloadIsDoc == TypeOK => Payload \in Docs
BY DefaultLoads DEF TypeOK, Payload, Docs

\* Types are kept by every step.
LEMMA TypeStep == TypeOK /\ Control /\ [Next]_vars => TypeOK'
<1> SUFFICES ASSUME TypeOK, Control, [Next]_vars PROVE TypeOK'
  OBVIOUS
<1> USE DEF flash, writer, loader, reload
<1>1. ASSUME NEW d \in Docs, NEW link \in {"line", "chunk"}, Begin(d, link)
      PROVE TypeOK'
  BY <1>1 DEF Begin, TypeOK, Control
<1>2. CASE StageComplete
  BY <1>2, PayloadIsDoc DEF StageComplete, TypeOK, Control
<1>3. CASE StageFail
  <2>1. had' \in BOOLEAN
    BY <1>3 DEF StageFail, WriterDone, Unlocked, TypeOK
  <2>q. QED
    BY <1>3, <2>1 DEF StageFail, WriterDone, Unlocked, TypeOK, Control
<1>4. CASE DropStaleBackup
  <2>1. risked' \in BOOLEAN /\ faulted' \in BOOLEAN
    BY <1>4 DEF DropStaleBackup, TypeOK
  <2>q. QED
    BY <1>4, <2>1 DEF DropStaleBackup, TypeOK, Control
<1>5. CASE CheckOriginal
  BY <1>5 DEF CheckOriginal, TypeOK, Control
<1>6. CASE Rotate
  <2>1. faulted' \in BOOLEAN
    BY <1>6 DEF Rotate, TypeOK
  <2>q. QED
    BY <1>6, <2>1 DEF Rotate, TypeOK, Control
<1>7. CASE Promote
  <2>1. crossed' \in BOOLEAN /\ had' \in BOOLEAN
    BY <1>7 DEF Promote, WriterDone, Unlocked, TypeOK
  <2>2. primary' \in Docs \union {Absent}
    BY <1>7, PayloadIsDoc DEF Promote, Control
  <2>q. QED
    BY <1>7, <2>1, <2>2 DEF Promote, WriterDone, Unlocked, TypeOK, Control
<1>8. CASE PromoteFails
  BY <1>8 DEF PromoteFails, TypeOK, Control
<1>9. CASE RestoreOriginal
  <2>1. faulted' \in BOOLEAN
    BY <1>9 DEF RestoreOriginal, TypeOK
  <2>q. QED
    BY <1>9, <2>1 DEF RestoreOriginal, TypeOK, Control
<1>10. CASE DropTmp
  <2>1. had' \in BOOLEAN
    BY <1>10 DEF DropTmp, WriterDone, Unlocked, TypeOK
  <2>q. QED
    BY <1>10, <2>1 DEF DropTmp, WriterDone, Unlocked, TypeOK, Control
<1>11. CASE MarkPending
  BY <1>11 DEF MarkPending, TypeOK, Control
<1>12. CASE RaiseAndAck
  BY <1>12 DEF RaiseAndAck, TypeOK, Control
<1>13. CASE TakeReload
  <2>1. flag' \in BOOLEAN
    BY <1>13 DEF TakeReload, Conclude, TypeOK
  <2>q. QED
    BY <1>13, <2>1, Outcomes DEF TakeReload, Conclude, TypeOK, Control
<1>14. CASE Sweep
  BY <1>14 DEF Sweep, TypeOK, Control
<1>15. CASE Provision
  BY <1>15 DEF Provision, TypeOK, Control
<1>16. CASE ReadPrimary
  BY <1>16, Outcomes DEF ReadPrimary, Staged, Conclude, TypeOK, Control
<1>17. CASE ReadBackup
  BY <1>17, Outcomes DEF ReadBackup, Staged, Conclude, TypeOK, Control
<1>18. CASE RecoverFromBak
  <2>1. faulted' \in BOOLEAN
    BY <1>18 DEF RecoverFromBak, TypeOK
  <2>q. QED
    BY <1>18, <2>1 DEF RecoverFromBak, TypeOK, Control
<1>19. CASE Build
  BY <1>19, Outcomes DEF Build, Staged, Conclude, TypeOK, Control
<1>20. CASE FindPrevious
  BY <1>20, Outcomes DEF FindPrevious, Conclude, TypeOK, Control
<1>21. CASE RemoveRefused
  <2>1. faulted' \in BOOLEAN
    BY <1>21 DEF RemoveRefused, Conclude, TypeOK
  <2>q. QED
    BY <1>21, <2>1, Outcomes DEF RemoveRefused, Conclude, TypeOK, Control
<1>22. CASE RestorePrevious
  <2>1. faulted' \in BOOLEAN /\ first' \in BOOLEAN
    BY <1>22 DEF RestorePrevious, Conclude, TypeOK
  <2>q. QED
    BY <1>22, <2>1, Outcomes DEF RestorePrevious, Conclude, TypeOK, Control
<1>23. CASE Settle
  BY <1>23, Outcomes DEF Settle, TypeOK, Control
<1>24. CASE PowerCut
  BY <1>24 DEF PowerCut, TypeOK, Control
<1>25. CASE UNCHANGED vars
  BY <1>25 DEF vars, TypeOK, Control
<1>q. QED
  BY <1>1, <1>2, <1>3, <1>4, <1>5, <1>6, <1>7, <1>8, <1>9, <1>10, <1>11, <1>12, <1>13, <1>14,
     <1>15, <1>16, <1>17, <1>18, <1>19, <1>20, <1>21, <1>22, <1>23, <1>24, <1>25 DEF Next,
     Host, WriterStep, LoaderStep

\* So are the control points.
LEMMA ControlStep == TypeOK /\ Control /\ [Next]_vars => Control'
<1> SUFFICES ASSUME Control, [Next]_vars PROVE Control'
  OBVIOUS
<1> USE DEF flash, writer, loader, reload
<1>1. ASSUME NEW d \in Docs, NEW link \in {"line", "chunk"}, Begin(d, link)
      PROVE Control'
  BY <1>1 DEF Begin, Control, Working, Payload
<1>2. CASE StageComplete
  BY <1>2 DEF StageComplete, Payload, Control, Working
<1>3. CASE StageFail
  BY <1>3 DEF StageFail, WriterDone, Unlocked, Control, Working, Payload
<1>4. CASE DropStaleBackup
  BY <1>4 DEF DropStaleBackup, Control, Working, Payload
<1>5. CASE CheckOriginal
  BY <1>5 DEF CheckOriginal, Control, Working, Payload
<1>6. CASE Rotate
  BY <1>6 DEF Rotate, Control, Working, Payload
<1>7. CASE Promote
  BY <1>7 DEF Promote, WriterDone, Unlocked, Control, Working, Payload
<1>8. CASE PromoteFails
  BY <1>8 DEF PromoteFails, Control, Working, Payload
<1>9. CASE RestoreOriginal
  BY <1>9 DEF RestoreOriginal, Control, Working, Payload
<1>10. CASE DropTmp
  BY <1>10 DEF DropTmp, WriterDone, Unlocked, Control, Working, Payload
<1>11. CASE MarkPending
  BY <1>11 DEF MarkPending, Control, Working, Payload
<1>12. CASE RaiseAndAck
  BY <1>12 DEF RaiseAndAck, Control, Working, Payload
<1>13. CASE TakeReload
  BY <1>13 DEF TakeReload, Conclude, Control, Working, Payload
<1>14. CASE Sweep
  BY <1>14 DEF Sweep, Control, Working, Payload
<1>15. CASE Provision
  BY <1>15 DEF Provision, Control, Working, Payload
<1>16. CASE ReadPrimary
  BY <1>16 DEF ReadPrimary, Staged, Conclude, Control, Working, Payload
<1>17. CASE ReadBackup
  BY <1>17 DEF ReadBackup, Staged, Conclude, Control, Working, Payload
<1>18. CASE RecoverFromBak
  BY <1>18 DEF RecoverFromBak, Control, Working, Payload
<1>19. CASE Build
  BY <1>19 DEF Build, Staged, Conclude, Control, Working, Payload
<1>20. CASE FindPrevious
  BY <1>20 DEF FindPrevious, Conclude, Control, Working, Payload
<1>21. CASE RemoveRefused
  BY <1>21 DEF RemoveRefused, Conclude, Control, Working, Payload
<1>22. CASE RestorePrevious
  BY <1>22 DEF RestorePrevious, Conclude, Control, Working, Payload
<1>23. CASE Settle
  BY <1>23 DEF Settle, Control, Working, Payload
<1>24. CASE PowerCut
  BY <1>24 DEF PowerCut, Control, Working, Payload
<1>25. CASE UNCHANGED vars
  BY <1>25 DEF vars, Control, Working, Payload
<1>q. QED
  BY <1>1, <1>2, <1>3, <1>4, <1>5, <1>6, <1>7, <1>8, <1>9, <1>10, <1>11, <1>12, <1>13, <1>14,
     <1>15, <1>16, <1>17, <1>18, <1>19, <1>20, <1>21, <1>22, <1>23, <1>24, <1>25 DEF Next,
     Host, WriterStep, LoaderStep

\* What has been put at risk stays so.
LEMMA SafeStays == TypeOK /\ Control /\ [Next]_vars /\ Safe' => Safe
<1> SUFFICES ASSUME TypeOK, Control, [Next]_vars, Safe' PROVE Safe
  OBVIOUS
<1>t. {risked, faulted, risked', faulted'} \subseteq BOOLEAN
  BY TypeStep DEF TypeOK
<1>1. CASE UNCHANGED <<risked, faulted>>
  BY <1>1 DEF Safe
<1>2. CASE DropStaleBackup
  BY <1>t, <1>2 DEF DropStaleBackup, Safe
<1>3. CASE Rotate
  BY <1>t, <1>3 DEF Rotate, Safe
<1>4. CASE PromoteFails
  BY <1>t, <1>4 DEF PromoteFails, Safe
<1>5. CASE RestoreOriginal
  BY <1>t, <1>5 DEF RestoreOriginal, Safe
<1>6. CASE RecoverFromBak
  BY <1>t, <1>6 DEF RecoverFromBak, Safe
<1>7. CASE RemoveRefused
  BY <1>t, <1>7 DEF RemoveRefused, Safe
<1>8. CASE RestorePrevious
  BY <1>t, <1>8 DEF RestorePrevious, Safe
<1>q. QED
  BY <1>1, <1>2, <1>3, <1>4, <1>5, <1>6, <1>7, <1>8
  DEF vars, Next, Host, WriterStep, LoaderStep, Begin, StageComplete, StageFail, CheckOriginal,
      Promote, DropTmp, MarkPending, RaiseAndAck, TakeReload, Sweep, Provision, ReadPrimary,
      ReadBackup, Build, FindPrevious, Settle, PowerCut

\* And so are the files, as long as nothing puts them at risk.
LEMMA FilesStep == IInv /\ [Next]_vars => (Safe' => Files')
<1> SUFFICES ASSUME IInv, [Next]_vars, Safe' PROVE Files'
  OBVIOUS
<1> USE MarkersApart, ClassesDisjoint, DefaultLoads DEF flash, writer, loader, reload
<1>s. Safe
  BY SafeStays DEF IInv
<1>f. TypeOK /\ Control /\ Files
  BY <1>s DEF IInv
<1>1. ASSUME NEW d \in Docs, NEW link \in {"line", "chunk"}, Begin(d, link)
      PROVE Files'
  BY <1>f, <1>1 DEF Begin, Control, Files
<1>2. CASE StageComplete
  BY <1>f, <1>2 DEF StageComplete, Control, Working, Files, Safe, TypeOK, Docs
<1>3. CASE StageFail
  BY <1>f, <1>3 DEF StageFail, WriterDone, Control, Working, Files, Safe, TypeOK, Docs
<1>4. CASE DropStaleBackup
  BY <1>f, <1>4 DEF DropStaleBackup, Control, Working, Files, Safe, TypeOK, Docs
<1>5. CASE CheckOriginal
  BY <1>f, <1>5 DEF CheckOriginal, Control, Working, Files, Safe, TypeOK, Docs
<1>6. CASE Rotate
  BY <1>f, <1>6 DEF Rotate, CanRename, Control, Working, Files, Safe, TypeOK, Docs
<1>7. CASE Promote
  BY <1>f, <1>7 DEF Promote, WriterDone, Payload, Control, Working, Files, Safe, TypeOK, Docs
<1>8. CASE PromoteFails
  BY <1>f, <1>8 DEF PromoteFails, Control, Working, Files, Safe, TypeOK, Docs
<1>9. CASE RestoreOriginal
  BY <1>f, <1>9 DEF RestoreOriginal, CanRename, Control, Working, Files, Safe, TypeOK, Docs
<1>10. CASE DropTmp
  BY <1>f, <1>10 DEF DropTmp, WriterDone, Control, Working, Files, Safe, TypeOK, Docs
<1>11. CASE MarkPending
  BY <1>f, <1>11 DEF MarkPending, Control, Working, Files, Safe, TypeOK, Docs
<1>12. CASE RaiseAndAck
  BY <1>f, <1>12 DEF RaiseAndAck, Control, Working, Files, Safe, TypeOK, Docs
<1>13. CASE TakeReload
  BY <1>f, <1>13 DEF TakeReload, Conclude, Control, Working, Files, Safe, TypeOK, Docs
<1>14. CASE Sweep
  BY <1>f, <1>14 DEF Sweep, Control, Working, Files, Safe, TypeOK, Docs
<1>15. CASE Provision
  BY <1>f, <1>15 DEF Provision, Control, Working, Files, Safe, TypeOK, Docs
<1>16. CASE ReadPrimary
  BY <1>f, <1>16 DEF ReadPrimary, Staged, Conclude, Control, Working, Files, Safe, TypeOK, Docs
<1>17. CASE ReadBackup
  BY <1>f, <1>17 DEF ReadBackup, Staged, Conclude, Control, Working, Files, Safe, TypeOK, Docs
<1>18. CASE RecoverFromBak
  BY <1>f, <1>18 DEF RecoverFromBak, CanRename, Control, Working, Files, Safe, TypeOK, Docs
<1>19. CASE Build
  BY <1>f, <1>19 DEF Build, Staged, Conclude, Control, Working, Files, Safe, TypeOK, Docs
<1>20. CASE FindPrevious
  BY <1>f, <1>20 DEF FindPrevious, Conclude, Control, Working, Files, Safe, TypeOK, Docs
<1>21. CASE RemoveRefused
  BY <1>f, <1>21 DEF RemoveRefused, Conclude, Control, Working, Files, Safe, TypeOK, Docs
<1>22. CASE RestorePrevious
  BY <1>f, <1>22 DEF RestorePrevious, Conclude, CanRename, Control, Working, Files, Safe,
     TypeOK, Docs
<1>23. CASE Settle
  BY <1>f, <1>23 DEF Settle, Control, Working, Files, Safe, TypeOK, Docs
<1>24. CASE PowerCut
  BY <1>f, <1>24 DEF PowerCut, Control, Working, Files, Safe, TypeOK, Docs
<1>25. CASE UNCHANGED vars
  BY <1>f, <1>25 DEF vars, Files
<1>q. QED
  BY <1>1, <1>2, <1>3, <1>4, <1>5, <1>6, <1>7, <1>8, <1>9, <1>10, <1>11, <1>12, <1>13, <1>14,
     <1>15, <1>16, <1>17, <1>18, <1>19, <1>20, <1>21, <1>22, <1>23, <1>24, <1>25 DEF Next,
     Host, WriterStep, LoaderStep
-----------------------------------------------------------------------------
LEMMA InitHolds == Init => IInv
BY Outcomes, DefaultLoads, MarkersApart
DEF Init, IInv, TypeOK, Control, Working, Payload, Files, Docs

\* IInv is inductive.
LEMMA Invariance == Spec => []IInv
<1>1. IInv /\ [Next]_vars => IInv'
  BY TypeStep, ControlStep, FilesStep DEF IInv
<1>q. QED
  BY InitHolds, <1>1, PTL DEF Spec

\* The types hold in every reachable state; in particular a torn upload never
\* becomes dashboard.json or its backup.
THEOREM TypeCorrect == Spec => []TypeOK
<1>1. IInv => TypeOK
  BY DEF IInv
<1>q. QED
  BY <1>1, Invariance, PTL

\* The files that the invariant allows always leave a config to boot.
LEMMA FilesBoot == IInv => SafeFallback
BY DefaultLoads, MarkersApart DEF IInv, Files, SafeFallback, BootDoc, Docs

\* SafeFallback, for every set of documents: neither the two-rename swap nor the
\* loader's fallbacks nor a power cut between any two of their steps leaves the
\* dash without a dashboard it can bring up, unless a swap began over a primary
\* that does not load or a SPIFFS call failed.
THEOREM FallbackSafe == Spec => []SafeFallback
<1>q. QED
  BY FilesBoot, Invariance, PTL
-----------------------------------------------------------------------------
Value == BootDoc(primary, backup)

\* While nothing is at risk, only the promote of a swap changes what the next boot
\* brings up, and it changes it to the document that was offered, if that loads.
LEMMA ValueStep ==
  IInv /\ [Next]_vars /\ Safe' =>
    \/ UNCHANGED Value
    \/ Promote /\ via # "provision" /\ doc \in Good /\ Value' = doc
<1> DEFINE Kept == UNCHANGED Value
<1> DEFINE Taken == Promote /\ via # "provision" /\ doc \in Good /\ Value' = doc
<1> SUFFICES ASSUME IInv, [Next]_vars, Safe' PROVE Kept \/ Taken
  OBVIOUS
<1> USE MarkersApart, ClassesDisjoint, DefaultLoads
<1>f. TypeOK /\ Control /\ Files
  BY SafeStays DEF IInv
<1>1. CASE UNCHANGED <<primary, backup>>
  BY <1>1 DEF Value, BootDoc
<1>2. CASE DropStaleBackup
  <2>1. UNCHANGED primary /\ (UNCHANGED backup \/ backup' = Absent)
    BY <1>2 DEF DropStaleBackup
  <2>2. CASE via = "provision"
    BY <1>f, <1>2, <2>1, <2>2 DEF DropStaleBackup, Control, Working, Files, Value, BootDoc
  <2>3. CASE primary \in Good
    BY <2>1, <2>3 DEF Value, BootDoc, Docs
  <2>4. ~risked' => via = "provision" \/ primary \in Good
    BY <1>2 DEF DropStaleBackup
  <2>q. QED
    BY <2>2, <2>3, <2>4 DEF Safe
<1>3. CASE Rotate
  BY <1>f, <1>3 DEF Rotate, CanRename, Control, Working, Files, Safe, TypeOK, Docs, Value, BootDoc
<1>4. CASE Promote
  BY <1>f, <1>4 DEF Promote, Payload, Control, Working, Files, TypeOK, Docs, Value, BootDoc
<1>5. CASE RestoreOriginal
  BY <1>f, <1>5 DEF RestoreOriginal, CanRename, Files, TypeOK, Docs, Value, BootDoc
<1>6. CASE RecoverFromBak
  BY <1>f, <1>6 DEF RecoverFromBak, CanRename, Files, TypeOK, Docs, Value, BootDoc
<1>7. CASE RemoveRefused
  BY <1>f, <1>7 DEF RemoveRefused, Files, TypeOK, Docs, Value, BootDoc
<1>8. CASE RestorePrevious
  BY <1>f, <1>8 DEF RestorePrevious, CanRename, Files, TypeOK, Docs, Value, BootDoc
<1>q. QED
  BY <1>1, <1>2, <1>3, <1>4, <1>5, <1>6, <1>7, <1>8
  DEF vars, flash, Next, Host, WriterStep, LoaderStep, Begin, StageComplete, StageFail,
      CheckOriginal, PromoteFails, DropTmp, MarkPending, RaiseAndAck, TakeReload, Sweep, Provision,
      ReadPrimary, ReadBackup, Build, FindPrevious, Settle, PowerCut

\* A step of the store is a step of the register, or a stutter.
LEMMA RegisterStep == IInv /\ [Next]_vars => [Register!Next]_(Register!vars)
<1> SUFFICES ASSUME IInv, [Next]_vars PROVE [Register!Next]_(Register!vars)
  OBVIOUS
<1>1. CASE ~Safe'
  BY <1>1 DEF Register!Next, Register!Damage
<1>2. ASSUME Safe', NEW d \in Docs, NEW link \in {"line", "chunk"}, Begin(d, link)
      PROVE Register!Next
  <2>1. Safe /\ UNCHANGED <<primary, backup>> /\ doc' = d
    BY <1>2, SafeStays DEF Begin, IInv
  <2>q. QED
    BY <1>2, <2>1 DEF Register!Next, Register!Offer, BootDoc
<1>3. CASE Safe' /\ ~Host
  <2>1. Safe
    BY <1>3, SafeStays DEF IInv
  <2>2. UNCHANGED doc
    BY <1>3
    DEF vars, writer, Next, WriterStep, LoaderStep, StageComplete, StageFail, WriterDone,
        DropStaleBackup, CheckOriginal, Rotate, Promote, PromoteFails, RestoreOriginal, DropTmp,
        MarkPending, RaiseAndAck, TakeReload, Sweep, Provision, ReadPrimary, ReadBackup,
        RecoverFromBak, Build, FindPrevious, RemoveRefused, RestorePrevious, Settle, PowerCut
  <2>3. CASE UNCHANGED Value
    BY <1>3, <2>1, <2>2, <2>3 DEF Value, Register!vars
  <2>4. CASE doc \in Good /\ Value' = doc
    BY <1>3, <2>1, <2>2, <2>4 DEF Value, Register!Next, Register!Switch
  <2>q. QED
    BY <1>3, <2>3, <2>4, ValueStep
<1>q. QED
  BY <1>1, <1>2, <1>3 DEF Host

\* The store implements the register: across swaps, loads, fallbacks and power cuts,
\* in any interleaving, the config the next boot brings up stays what it was or
\* becomes, whole and at one instant, the one the host sent.
THEOREM StoreIsRegister == Spec => ImplementsRegister
<1>1. Init => Register!Init
  BY DefaultLoads, MarkersApart DEF Init, Register!Init, BootDoc, Safe
<1>q. QED
  BY <1>1, Invariance, RegisterStep, PTL DEF Spec, ImplementsRegister, Register!Spec

\* What the host was told ok about, and what it is about to be told ok about.
Acked ==
  /\ AckMeansCommitted
  /\ Safe /\ wpc \in {"mark", "raise"} /\ doc \in Good => Value = doc

LEMMA AckedStep == IInv /\ Acked /\ [Next]_vars => Acked'
<1> SUFFICES ASSUME IInv, Acked, [Next]_vars, Safe' PROVE Acked'
  BY DEF Acked, AckMeansCommitted
<1> USE MarkersApart DEF loader, reload, writer, flash
<1>s. Safe
  BY SafeStays DEF IInv
<1>1. CASE Promote /\ via # "provision"
  <2>1. doc' = doc /\ acked' = Absent
    BY <1>1 DEF Promote
  <2>2. doc \in Good => Value' = doc
    BY <1>1, <1>s, MarkersApart DEF Promote, Payload, IInv, Control, Value, BootDoc, Docs
  <2>q. QED
    BY <2>1, <2>2 DEF Acked, AckMeansCommitted, Docs, Value
<1>2. CASE UNCHANGED Value
  <2>1. CASE RaiseAndAck
    BY <1>2, <1>s, <2>1 DEF RaiseAndAck, Acked, AckMeansCommitted, Value
  <2>2. CASE UNCHANGED acked /\ (wpc' \in {"mark", "raise"} => wpc \in {"mark", "raise"} /\ UNCHANGED doc)
    BY <1>2, <1>s, <2>2 DEF Acked, AckMeansCommitted, Value
  <2>3. CASE Promote
    BY <1>1, <2>3, <1>2, <1>s DEF Promote, WriterDone, Acked, AckMeansCommitted, Value
  <2>q. QED
    BY <2>1, <2>2, <2>3
    DEF vars, Next, Host, Begin, WriterStep, LoaderStep, StageComplete, StageFail, WriterDone,
        DropStaleBackup, CheckOriginal, Rotate, PromoteFails, RestoreOriginal, DropTmp,
        MarkPending, TakeReload, Sweep, Provision, ReadPrimary, ReadBackup,
        RecoverFromBak, Build, FindPrevious, RemoveRefused, RestorePrevious, Settle, PowerCut
<1>q. QED
  BY <1>1, <1>2, ValueStep

\* AckMeansCommitted, for every set of documents: the ok to the last chunk is never
\* ahead of, or undone by, what a boot would load.
THEOREM AckCommitted == Spec => []AckMeansCommitted
<1>1. Init => Acked
  BY MarkersApart DEF Init, Acked, AckMeansCommitted, Docs
<1>2. Acked => AckMeansCommitted
  BY DEF Acked
<1>q. QED
  BY <1>1, <1>2, AckedStep, Invariance, PTL DEF Spec
-----------------------------------------------------------------------------
\* A file that a swap has moved out of the way is still the backup.
Moved == wpc = "promote" /\ primary = Absent

\* The stored file is the one the host holds an ok for.
Stored == acked \in Docs /\ (primary = acked \/ (Moved /\ backup = acked))

\* The stored file is the good one a fallback restored.
Restored == acked \in Refused /\ (primary \in Good \/ Moved)

\* A verdict that is out is about the acknowledged upload.
Told ==
  /\ verdict # "pending"
  /\ verdict \in {"applied", "unchecked"} => Stored
  /\ verdict = "refused" => Restored

\* A reload finds the acknowledged upload, by what the loader makes of it ...
OfGood ==
  /\ acked \in Good => Stored /\ upc \in {"primary", "backup", "recover", "build", "settle"}
  /\ acked \in Good /\ upc \in {"backup", "recover"} => Moved
  /\ acked \in Good /\ upc \in {"recover", "build"} => udoc = acked

OfUnreadable ==
  acked \in Unreadable =>
    /\ primary = acked /\ upc \in {"primary", "backup", "recover", "build", "settle"}
    /\ upc \in {"recover", "build"} => udoc \in Good

OfRefused ==
  acked \in Refused =>
    /\ upc \in {"primary", "build", "fallback", "remove", "restore", "settle"}
    /\ upc # "restore" => primary = acked
    /\ upc = "build" => udoc = acked
    /\ upc = "restore" => primary = Absent /\ backup \in Good /\ wpc \in {"idle", "staging", "drop"}
    /\ upc = "settle" => outcome = "NoMemory"

\* ... and after the fallback, the file that took its place.
Judging ==
  IF first
    THEN /\ OfGood /\ OfUnreadable /\ OfRefused
         /\ upc = "settle" => outcome \in {"Loaded", "NoMemory"}
    ELSE /\ Restored /\ upc \in {"primary", "backup", "recover", "build", "settle"}
         /\ upc = "settle" => outcome \in {"RestoredPrevious", "Refused"}

\* Where the verdict of the last upload is on its way: being asked for, asked for,
\* under way, or out.
Asking == wpc \in {"mark", "raise"}

Judged ==
  /\ Asking =>
       /\ upc = "idle" /\ ~flag /\ primary = doc
       /\ wpc = "raise" => verdict = "pending"
  /\ flag => upc = "idle" /\ verdict = "pending" /\ Stored
  /\ upc = "idle" /\ ~flag /\ ~Asking => Told
  /\ upc # "idle" /\ kind = "reload" =>
       acked \in Docs /\ verdict = "pending" /\ Judging

\* A load starts over from the first reading, and at boot no host has been heard yet.
Fresh ==
  /\ upc = "idle" => first
  /\ upc # "idle" /\ kind = "boot" =>
       ~flag /\ verdict = "idle" /\ (wpc = "idle" \/ via = "provision")

Verdicts == Fresh /\ (Safe /\ ~crossed => Judged)

\* Every step keeps what Fresh says of boots.
LEMMA FreshStep == TypeOK /\ Control /\ Fresh /\ [Next]_vars => Fresh'
BY DEF Fresh, Control, Working, TypeOK, vars, loader, writer, reload, Next, Host, Begin,
       WriterStep, LoaderStep, StageComplete,
       StageFail, WriterDone, DropStaleBackup, CheckOriginal, Rotate, Promote, PromoteFails,
       RestoreOriginal, DropTmp, MarkPending, RaiseAndAck, TakeReload, Conclude, Staged, Sweep,
       Provision, ReadPrimary, ReadBackup, RecoverFromBak, Build, FindPrevious, RemoveRefused,
       RestorePrevious, Settle, PowerCut

\* And every step moves the verdict on, or leaves it about the acknowledged upload: the swap of
\* a later upload only moves a good file aside, and a commit in between is crossed.
LEMMA VerdictStep == IInv /\ Verdicts /\ [Next]_vars => Verdicts'
<1> SUFFICES ASSUME IInv, Verdicts, [Next]_vars, Safe', ~crossed' PROVE Judged'
  BY FreshStep DEF Verdicts, IInv
<1> USE MarkersApart, ClassesDisjoint DEF flash, writer, loader, reload
<1>s. Safe
  BY SafeStays DEF IInv
<1>f. TypeOK /\ Control /\ Files /\ Fresh /\ (~crossed => Judged)
  BY <1>s DEF IInv, Verdicts
<1>j. ~Promote /\ ~PowerCut => ~crossed /\ Judged
  BY <1>f DEF vars, Next, Host, Begin, WriterStep, LoaderStep, StageComplete, StageFail,
    DropStaleBackup, CheckOriginal, Rotate, PromoteFails, RestoreOriginal, DropTmp, MarkPending,
    RaiseAndAck, TakeReload, Sweep, Provision, ReadPrimary, ReadBackup, RecoverFromBak, Build,
    FindPrevious, RemoveRefused, RestorePrevious, Settle
<1> USE DEF Judged, Asking, Told, Stored, Restored, Moved, Judging, OfGood, OfUnreadable, OfRefused
<1>1. ASSUME NEW d \in Docs, NEW link \in {"line", "chunk"}, Begin(d, link)
      PROVE Judged'
  BY <1>f, <1>j, <1>1 DEF Begin, Promote, PowerCut
<1>2. CASE StageComplete
  BY <1>f, <1>j, <1>2 DEF StageComplete, Promote, PowerCut, Control, Working, Files, Safe,
     TypeOK, Docs
<1>3. CASE StageFail
  BY <1>f, <1>j, <1>3 DEF StageFail, WriterDone, Unlocked, Promote, PowerCut, Control, Working,
     Files, Safe, TypeOK, Docs
<1>4. CASE DropStaleBackup
  BY <1>f, <1>j, <1>4 DEF DropStaleBackup, Promote, PowerCut, Control, Working, Files, Safe,
     TypeOK, Docs
<1>5. CASE CheckOriginal
  BY <1>f, <1>j, <1>5 DEF CheckOriginal, Promote, PowerCut, Control, Working, Files, Safe,
     TypeOK, Docs
<1>6. CASE Rotate
  BY <1>f, <1>j, <1>6 DEF Rotate, CanRename, Promote, PowerCut, Control, Working, Files, Safe,
     TypeOK, Docs
<1>7. CASE Promote
  BY <1>f, <1>j, <1>7 DEF Promote, WriterDone, Unlocked, Payload, PowerCut, Control, Working,
     Files, Safe, TypeOK, Docs, Fresh
<1>8. CASE PromoteFails
  BY <1>f, <1>j, <1>8 DEF PromoteFails, Promote, PowerCut, Control, Working, Files, Safe,
     TypeOK, Docs
<1>9. CASE RestoreOriginal
  BY <1>f, <1>j, <1>9 DEF RestoreOriginal, CanRename, Promote, PowerCut, Control, Working,
     Files, Safe, TypeOK, Docs
<1>10. CASE DropTmp
  BY <1>f, <1>j, <1>10 DEF DropTmp, WriterDone, Unlocked, Promote, PowerCut, Control, Working,
     Files, Safe, TypeOK, Docs
<1>11. CASE MarkPending
  BY <1>f, <1>j, <1>11 DEF MarkPending, Promote, PowerCut, Control, Working, Files, Safe,
     TypeOK, Docs
<1>12. CASE RaiseAndAck
  BY <1>f, <1>j, <1>12 DEF RaiseAndAck, Promote, PowerCut, Control, Working, Files, Safe,
     TypeOK, Docs
<1>13. CASE TakeReload
  BY <1>f, <1>j, <1>13 DEF TakeReload, Conclude, Promote, PowerCut, Control, Working, Files,
     Safe, TypeOK, Docs, Fresh
<1>14. CASE Sweep
  BY <1>f, <1>j, <1>14 DEF Sweep, Promote, PowerCut, Control, Working, Files, Safe, TypeOK, Docs
<1>15. CASE Provision
  BY <1>f, <1>j, <1>15 DEF Provision, Promote, PowerCut, Control, Working, Files, Safe, TypeOK, Docs
<1>16. CASE ReadPrimary
  BY <1>f, <1>j, <1>16 DEF ReadPrimary, Staged, Conclude, Promote, PowerCut, Control, Working,
     Files, Safe, TypeOK, Docs
<1>17. CASE ReadBackup
  BY <1>f, <1>j, <1>17 DEF ReadBackup, Staged, Conclude, Promote, PowerCut, Control, Working,
     Files, Safe, TypeOK, Docs
<1>18. CASE RecoverFromBak
  BY <1>f, <1>j, <1>18 DEF RecoverFromBak, CanRename, Promote, PowerCut, Control, Working,
     Files, Safe, TypeOK, Docs
<1>19. CASE Build
  BY <1>f, <1>j, <1>19 DEF Build, Staged, Conclude, Promote, PowerCut, Control, Working, Files,
     Safe, TypeOK, Docs
<1>20. CASE FindPrevious
  BY <1>f, <1>j, <1>20 DEF FindPrevious, Conclude, Promote, PowerCut, Control, Working, Files,
     Safe, TypeOK, Docs
<1>21. CASE RemoveRefused
  BY <1>f, <1>j, <1>21 DEF RemoveRefused, Conclude, Promote, PowerCut, Control, Working, Files,
     Safe, TypeOK, Docs
<1>22. CASE RestorePrevious
  BY <1>f, <1>j, <1>22 DEF RestorePrevious, Conclude, CanRename, Promote, PowerCut, Control,
     Working, Files, Safe, TypeOK, Docs
<1>23. CASE Settle
  BY <1>f, <1>j, <1>23 DEF Settle, Promote, PowerCut, Control, Working, Files, Safe, TypeOK,
     Docs, Fresh, StateForOutcome
<1>24. CASE PowerCut
  BY <1>f, <1>j, <1>24 DEF PowerCut, Promote, Control, Working, Files, Safe, TypeOK, Docs
<1>25. CASE UNCHANGED vars
  BY <1>f, <1>j, <1>25 DEF vars, Promote, PowerCut
<1>q. QED
  BY <1>1, <1>2, <1>3, <1>4, <1>5, <1>6, <1>7, <1>8, <1>9, <1>10, <1>11, <1>12, <1>13, <1>14,
     <1>15, <1>16, <1>17, <1>18, <1>19, <1>20, <1>21, <1>22, <1>23, <1>24, <1>25 DEF Next,
     Host, WriterStep, LoaderStep

\* VerdictHonest, for every set of documents: once both tasks are done, the verdict the host
\* polls is about its upload, unless a swap began over a primary that does not load, a SPIFFS
\* call failed, or the upload was committed while the load of another was due or under way.
THEOREM VerdictTold == Spec => []VerdictHonest
<1>1. Init => Verdicts
  BY DEF Init, Verdicts, Fresh, Judged, Asking
<1>2. IInv /\ Verdicts => VerdictHonest
  BY ClassesDisjoint, MarkersApart DEF IInv, Files, Control, Verdicts, Judged, Asking, Told,
     Stored, Restored, Moved, VerdictHonest, Quiet
<1>q. QED
  BY <1>1, <1>2, VerdictStep, Invariance, PTL DEF Spec
=============================================================================
