---------------------------- MODULE ProcessProofs ----------------------------
EXTENDS Process, TLAPS

Step(t) == Proceed(t) \/ Call(t)

(* Every action keeps the types. *)
LEMMA TypeStep ==
  ASSUME PrTypeOK, NEW t \in Threads, Step(t)
  PROVE  PrTypeOK'
<1>a. {"user", "arm", "panic", "mapped", "checked", "wantInsert", "wantFree", "insert", "free", "new",
       "install", "sigaction", "report", "stacks", "annotate", "policy", "again"} \subseteq PC
  BY DEF PC, InsidePC, InitPC, LockedPC, HandlerPC
<1> USE ProcessAssumption, <1>a
    DEF PrTypeOK, Goto, Die, Enter, Leave, HandOut, LockedPC, RegistryPC, Caller, threadVars, initVars,
        heapVars, history
<1>1. ASSUME NEW p \in Ptr, AllocNested(t, p) PROVE PrTypeOK'
  BY <1>1 DEF AllocNested
<1>2. ASSUME AllocBegin(t) PROVE PrTypeOK'
  BY <1>2 DEF AllocBegin
<1>3. ASSUME NEW p \in Ptr, FreeNested(t, p) PROVE PrTypeOK'
  BY <1>3 DEF FreeNested
<1>4. ASSUME NEW p \in Ptr, FreeBegin(t, p) PROVE PrTypeOK'
  BY <1>4 DEF FreeBegin
<1>5. ASSUME Lock(t) PROVE PrTypeOK'
  BY <1>5 DEF Lock
<1>6. ASSUME AllocEnd(t) PROVE PrTypeOK'
  BY <1>6 DEF AllocEnd
<1>7. ASSUME FreeEnd(t) PROVE PrTypeOK'
  BY <1>7 DEF FreeEnd
<1>8. ASSUME Ready(t) PROVE PrTypeOK'
  BY <1>8 DEF Ready
<1>9. ASSUME FirstCall(t) PROVE PrTypeOK'
  BY <1>9 DEF FirstCall
<1>10. ASSUME New(t) PROVE PrTypeOK'
  <2>1. pc' \in [Threads -> PC]
    BY <1>10 DEF New
  <2>2. alive' \in BOOLEAN
    BY <1>10 DEF New
  <2>. QED
    BY <1>10, <2>1, <2>2 DEF New
<1>11. ASSUME CallOnce(t) PROVE PrTypeOK'
  BY <1>11 DEF CallOnce
<1>12. ASSUME Sigaction(t) PROVE PrTypeOK'
  BY <1>12 DEF Sigaction
<1>13. ASSUME Arm(t) PROVE PrTypeOK'
  BY <1>13 DEF Arm
<1>14. ASSUME PanicEnd(t) PROVE PrTypeOK'
  <2>1. pc' \in [Threads -> PC]
    BY <1>14 DEF PanicEnd
  <2>2. alive' \in BOOLEAN /\ stuck' \in SUBSET Threads
    BY <1>14 DEF PanicEnd
  <2>. QED
    BY <1>14, <2>1, <2>2 DEF PanicEnd
<1>15. ASSUME Fault(t) PROVE PrTypeOK'
  <2>1. pc' \in [Threads -> PC]
    BY <1>15 DEF Fault
  <2>2. alive' \in BOOLEAN
    BY <1>15 DEF Fault
  <2>. QED
    BY <1>15, <2>1, <2>2 DEF Fault
<1>16. ASSUME OverflowStack(t) PROVE PrTypeOK'
  <2>1. pc' \in [Threads -> PC]
    BY <1>16 DEF OverflowStack
  <2>2. alive' \in BOOLEAN /\ silent' \in BOOLEAN
    BY <1>16 DEF OverflowStack
  <2>. QED
    BY <1>16, <2>1, <2>2 DEF OverflowStack
<1>17. ASSUME Report(t) PROVE PrTypeOK'
  BY <1>17 DEF Report
<1>18. ASSUME Symbolized(t) PROVE PrTypeOK'
  BY <1>18 DEF Symbolized
<1>19. ASSUME Annotated(t) PROVE PrTypeOK'
  BY <1>19 DEF Annotated
<1>20. ASSUME OnFault(t) PROVE PrTypeOK'
  <2>1. pc' \in [Threads -> PC]
    BY <1>20 DEF OnFault
  <2>2. alive' \in BOOLEAN
    BY <1>20 DEF OnFault
  <2>. QED
    BY <1>20, <2>1, <2>2 DEF OnFault
<1>21. ASSUME Again(t) PROVE PrTypeOK'
  <2>1. pc' \in [Threads -> PC]
    BY <1>21 DEF Again
  <2>2. alive' \in BOOLEAN
    BY <1>21 DEF Again
  <2>. QED
    BY <1>21, <2>1, <2>2 DEF Again
<1>. QED
  BY <1>1, <1>2, <1>3, <1>4, <1>5, <1>6, <1>7, <1>8, <1>9, <1>10, <1>11,
     <1>12, <1>13, <1>14, <1>15, <1>16, <1>17, <1>18, <1>19, <1>20, <1>21
  DEF Step, Proceed, Call

(* What a step of t makes true of t itself. *)
LEMMA OwnStep ==
  ASSUME PrTypeOK, NEW t \in Threads, ThreadInv(t), OnceInv, Step(t)
  PROVE  ThreadInv(t)'
<1>0. /\ pc \in [Threads -> PC] /\ guard \in [Threads -> BOOLEAN] /\ back \in [Threads -> Caller]
      /\ from \in [Threads -> RegistryPC]
      /\ resume \in [Threads -> {"user", "overflow"} \cup LockedPC]
      /\ arg \in [Threads -> Ptr \cup {NoPtr}]
      /\ reg \in {"uninit", "running", "ready"} /\ stuck \in SUBSET Threads
      /\ initBy \in Threads \cup {NoThread} /\ lock \in Threads \cup {NoThread}
  BY DEF PrTypeOK
<1> USE ProcessAssumption, <1>0
    DEF ThreadInv, Balanced, InitOf, BackOf, Inside, GuardOf, InLocked, LockOf, ReadyOf, OnceInv,
        Initialising, Goto, Enter, Leave, HandOut, Forced, InsidePC, InitPC, LockedPC, HandlerPC,
        RegistryPC, Caller, threadVars, initVars, heapVars, history
<1>1. ASSUME NEW p \in Ptr, AllocNested(t, p) PROVE ThreadInv(t)'
  BY <1>1 DEF AllocNested
<1>2. ASSUME AllocBegin(t) PROVE ThreadInv(t)'
  BY <1>2 DEF AllocBegin
<1>3. ASSUME NEW p \in Ptr, FreeNested(t, p) PROVE ThreadInv(t)'
  BY <1>3 DEF FreeNested
<1>4. ASSUME NEW p \in Ptr, FreeBegin(t, p) PROVE ThreadInv(t)'
  BY <1>4 DEF FreeBegin
<1>5. ASSUME Lock(t) PROVE ThreadInv(t)'
  BY <1>5 DEF Lock
<1>6. ASSUME AllocEnd(t) PROVE ThreadInv(t)'
  BY <1>6 DEF AllocEnd
<1>7. ASSUME FreeEnd(t) PROVE ThreadInv(t)'
  BY <1>7 DEF FreeEnd
<1>8. ASSUME Ready(t) PROVE ThreadInv(t)'
  BY <1>8 DEF Ready
<1>9. ASSUME FirstCall(t) PROVE ThreadInv(t)'
  BY <1>9 DEF FirstCall
<1>10. ASSUME New(t) PROVE ThreadInv(t)'
  BY <1>10 DEF New
<1>11. ASSUME CallOnce(t) PROVE ThreadInv(t)'
  BY <1>11 DEF CallOnce
<1>12. ASSUME Sigaction(t) PROVE ThreadInv(t)'
  BY <1>12 DEF Sigaction
<1>13. ASSUME Arm(t) PROVE ThreadInv(t)'
  BY <1>13 DEF Arm
<1>14. ASSUME PanicEnd(t) PROVE ThreadInv(t)'
  BY <1>14 DEF PanicEnd
<1>15. ASSUME Fault(t) PROVE ThreadInv(t)'
  BY <1>15 DEF Fault
<1>16. ASSUME OverflowStack(t) PROVE ThreadInv(t)'
  BY <1>16 DEF OverflowStack
<1>17. ASSUME Report(t) PROVE ThreadInv(t)'
  BY <1>17 DEF Report
<1>18. ASSUME Symbolized(t) PROVE ThreadInv(t)'
  BY <1>18 DEF Symbolized
<1>19. ASSUME Annotated(t) PROVE ThreadInv(t)'
  BY <1>19 DEF Annotated
<1>20. ASSUME OnFault(t) PROVE ThreadInv(t)'
  BY <1>20 DEF OnFault
<1>21. ASSUME Again(t) PROVE ThreadInv(t)'
  BY <1>21 DEF Again
<1>. QED
  BY <1>1, <1>2, <1>3, <1>4, <1>5, <1>6, <1>7, <1>8, <1>9, <1>10, <1>11,
     <1>12, <1>13, <1>14, <1>15, <1>16, <1>17, <1>18, <1>19, <1>20, <1>21
  DEF Step, Proceed, Call

(* What a step of t leaves to another thread u: its own state, the lock,   *)
(* the initialisation if it runs it, and the registry once it is there.    *)
SameFor(u) ==
  /\ pc'[u] = pc[u] /\ guard'[u] = guard[u] /\ back'[u] = back[u]
  /\ from'[u] = from[u] /\ resume'[u] = resume[u] /\ arg'[u] = arg[u]
  /\ (lock' = u) <=> (lock = u)
  /\ Initialising(u)' <=> Initialising(u)
  /\ reg = "ready" => reg' = "ready"
  /\ u \in stuck => u \in stuck'
  /\ config' = config

LEMMA OtherStep ==
  ASSUME PrTypeOK, NEW t \in Threads, ThreadInv(t), OnceInv, Step(t), NEW u \in Threads, u # t
  PROVE  SameFor(u)
<1>0. /\ pc \in [Threads -> PC] /\ guard \in [Threads -> BOOLEAN] /\ back \in [Threads -> Caller]
      /\ from \in [Threads -> RegistryPC]
      /\ resume \in [Threads -> {"user", "overflow"} \cup LockedPC]
      /\ arg \in [Threads -> Ptr \cup {NoPtr}]
      /\ reg \in {"uninit", "running", "ready"} /\ stuck \in SUBSET Threads
      /\ initBy \in Threads \cup {NoThread} /\ lock \in Threads \cup {NoThread}
  BY DEF PrTypeOK
<1> USE ProcessAssumption, <1>0
    DEF SameFor, ThreadInv, InitOf, InLocked, LockOf, OnceInv, Initialising, Goto, Enter, Leave, InitPC,
        LockedPC, HandlerPC, RegistryPC, threadVars, initVars, heapVars, history
<1>1. ASSUME NEW p \in Ptr, AllocNested(t, p) PROVE SameFor(u)
  BY <1>1 DEF AllocNested
<1>2. ASSUME AllocBegin(t) PROVE SameFor(u)
  BY <1>2 DEF AllocBegin
<1>3. ASSUME NEW p \in Ptr, FreeNested(t, p) PROVE SameFor(u)
  BY <1>3 DEF FreeNested
<1>4. ASSUME NEW p \in Ptr, FreeBegin(t, p) PROVE SameFor(u)
  BY <1>4 DEF FreeBegin
<1>5. ASSUME Lock(t) PROVE SameFor(u)
  BY <1>5 DEF Lock
<1>6. ASSUME AllocEnd(t) PROVE SameFor(u)
  BY <1>6 DEF AllocEnd
<1>7. ASSUME FreeEnd(t) PROVE SameFor(u)
  BY <1>7 DEF FreeEnd
<1>8. ASSUME Ready(t) PROVE SameFor(u)
  BY <1>8 DEF Ready
<1>9. ASSUME FirstCall(t) PROVE SameFor(u)
  BY <1>9 DEF FirstCall
<1>10. ASSUME New(t) PROVE SameFor(u)
  BY <1>10 DEF New
<1>11. ASSUME CallOnce(t) PROVE SameFor(u)
  BY <1>11 DEF CallOnce
<1>12. ASSUME Sigaction(t) PROVE SameFor(u)
  BY <1>12 DEF Sigaction
<1>13. ASSUME Arm(t) PROVE SameFor(u)
  BY <1>13 DEF Arm
<1>14. ASSUME PanicEnd(t) PROVE SameFor(u)
  BY <1>14 DEF PanicEnd
<1>15. ASSUME Fault(t) PROVE SameFor(u)
  BY <1>15 DEF Fault
<1>16. ASSUME OverflowStack(t) PROVE SameFor(u)
  BY <1>16 DEF OverflowStack
<1>17. ASSUME Report(t) PROVE SameFor(u)
  BY <1>17 DEF Report
<1>18. ASSUME Symbolized(t) PROVE SameFor(u)
  BY <1>18 DEF Symbolized
<1>19. ASSUME Annotated(t) PROVE SameFor(u)
  BY <1>19 DEF Annotated
<1>20. ASSUME OnFault(t) PROVE SameFor(u)
  BY <1>20 DEF OnFault
<1>21. ASSUME Again(t) PROVE SameFor(u)
  BY <1>21 DEF Again
<1>. QED
  BY <1>1, <1>2, <1>3, <1>4, <1>5, <1>6, <1>7, <1>8, <1>9, <1>10, <1>11,
     <1>12, <1>13, <1>14, <1>15, <1>16, <1>17, <1>18, <1>19, <1>20, <1>21
  DEF Step, Proceed, Call

LEMMA OthersInv ==
  ASSUME NEW u \in Threads, ThreadInv(u), SameFor(u)
  PROVE  ThreadInv(u)'
BY DEF ThreadInv, SameFor, Balanced, InitOf, BackOf, Inside, GuardOf, InLocked, LockOf, ReadyOf, Initialising

(* The initialisation is somebody's. *)
LEMMA OnceStep ==
  ASSUME PrTypeOK, NEW t \in Threads, ThreadInv(t), OnceInv, Step(t)
  PROVE  OnceInv'
<1>0. /\ pc \in [Threads -> PC] /\ guard \in [Threads -> BOOLEAN] /\ back \in [Threads -> Caller]
      /\ from \in [Threads -> RegistryPC]
      /\ resume \in [Threads -> {"user", "overflow"} \cup LockedPC]
      /\ arg \in [Threads -> Ptr \cup {NoPtr}]
      /\ reg \in {"uninit", "running", "ready"} /\ stuck \in SUBSET Threads
      /\ initBy \in Threads \cup {NoThread} /\ lock \in Threads \cup {NoThread}
  BY DEF PrTypeOK
<1> USE ProcessAssumption, <1>0
    DEF ThreadInv, InitOf, OnceInv, Initialising, Goto, InitPC, RegistryPC,
        threadVars, initVars, heapVars, history
<1>1. ASSUME NEW p \in Ptr, AllocNested(t, p) PROVE OnceInv'
  BY <1>1 DEF AllocNested
<1>2. ASSUME AllocBegin(t) PROVE OnceInv'
  BY <1>2 DEF AllocBegin
<1>3. ASSUME NEW p \in Ptr, FreeNested(t, p) PROVE OnceInv'
  BY <1>3 DEF FreeNested
<1>4. ASSUME NEW p \in Ptr, FreeBegin(t, p) PROVE OnceInv'
  BY <1>4 DEF FreeBegin
<1>5. ASSUME Lock(t) PROVE OnceInv'
  BY <1>5 DEF Lock
<1>6. ASSUME AllocEnd(t) PROVE OnceInv'
  BY <1>6 DEF AllocEnd
<1>7. ASSUME FreeEnd(t) PROVE OnceInv'
  BY <1>7 DEF FreeEnd
<1>8. ASSUME Ready(t) PROVE OnceInv'
  BY <1>8 DEF Ready
<1>9. ASSUME FirstCall(t) PROVE OnceInv'
  BY <1>9 DEF FirstCall
<1>10. ASSUME New(t) PROVE OnceInv'
  BY <1>10 DEF New
<1>11. ASSUME CallOnce(t) PROVE OnceInv'
  BY <1>11 DEF CallOnce
<1>12. ASSUME Sigaction(t) PROVE OnceInv'
  BY <1>12 DEF Sigaction
<1>13. ASSUME Arm(t) PROVE OnceInv'
  BY <1>13 DEF Arm
<1>14. ASSUME PanicEnd(t) PROVE OnceInv'
  BY <1>14 DEF PanicEnd
<1>15. ASSUME Fault(t) PROVE OnceInv'
  BY <1>15 DEF Fault
<1>16. ASSUME OverflowStack(t) PROVE OnceInv'
  BY <1>16 DEF OverflowStack
<1>17. ASSUME Report(t) PROVE OnceInv'
  BY <1>17 DEF Report
<1>18. ASSUME Symbolized(t) PROVE OnceInv'
  BY <1>18 DEF Symbolized
<1>19. ASSUME Annotated(t) PROVE OnceInv'
  BY <1>19 DEF Annotated
<1>20. ASSUME OnFault(t) PROVE OnceInv'
  BY <1>20 DEF OnFault
<1>21. ASSUME Again(t) PROVE OnceInv'
  BY <1>21 DEF Again
<1>. QED
  BY <1>1, <1>2, <1>3, <1>4, <1>5, <1>6, <1>7, <1>8, <1>9, <1>10, <1>11,
     <1>12, <1>13, <1>14, <1>15, <1>16, <1>17, <1>18, <1>19, <1>20, <1>21
  DEF Step, Proceed, Call

LEMMA ReadyStep ==
  ASSUME PrTypeOK, NEW t \in Threads, ThreadInv(t), OnceInv, ReadyInv, Step(t)
  PROVE  ReadyInv'
<1>0. /\ pc \in [Threads -> PC] /\ by \in [Ptr -> {"none", "coffin", "system"}]
      /\ restored \in BOOLEAN /\ shadowed \in BOOLEAN
  BY DEF PrTypeOK
<1> USE ProcessAssumption, <1>0
    DEF ThreadInv, InitOf, InLocked, ReadyOf, OnceInv, ReadyInv, Initialising, HandOut, InitPC,
        LockedPC, RegistryPC, threadVars, initVars, heapVars, history
<1>1. ASSUME NEW p \in Ptr, AllocNested(t, p) PROVE ReadyInv'
  BY <1>1 DEF AllocNested
<1>2. ASSUME AllocBegin(t) PROVE ReadyInv'
  BY <1>2 DEF AllocBegin
<1>3. ASSUME NEW p \in Ptr, FreeNested(t, p) PROVE ReadyInv'
  BY <1>3 DEF FreeNested
<1>4. ASSUME NEW p \in Ptr, FreeBegin(t, p) PROVE ReadyInv'
  BY <1>4 DEF FreeBegin
<1>5. ASSUME Lock(t) PROVE ReadyInv'
  BY <1>5 DEF Lock
<1>6. ASSUME AllocEnd(t) PROVE ReadyInv'
  BY <1>6 DEF AllocEnd
<1>7. ASSUME FreeEnd(t) PROVE ReadyInv'
  BY <1>7 DEF FreeEnd
<1>8. ASSUME Ready(t) PROVE ReadyInv'
  BY <1>8 DEF Ready
<1>9. ASSUME FirstCall(t) PROVE ReadyInv'
  BY <1>9 DEF FirstCall
<1>10. ASSUME New(t) PROVE ReadyInv'
  BY <1>10 DEF New
<1>11. ASSUME CallOnce(t) PROVE ReadyInv'
  BY <1>11 DEF CallOnce
<1>12. ASSUME Sigaction(t) PROVE ReadyInv'
  BY <1>12 DEF Sigaction
<1>13. ASSUME Arm(t) PROVE ReadyInv'
  BY <1>13 DEF Arm
<1>14. ASSUME PanicEnd(t) PROVE ReadyInv'
  BY <1>14 DEF PanicEnd
<1>15. ASSUME Fault(t) PROVE ReadyInv'
  BY <1>15 DEF Fault
<1>16. ASSUME OverflowStack(t) PROVE ReadyInv'
  BY <1>16 DEF OverflowStack
<1>17. ASSUME Report(t) PROVE ReadyInv'
  BY <1>17 DEF Report
<1>18. ASSUME Symbolized(t) PROVE ReadyInv'
  BY <1>18 DEF Symbolized
<1>19. ASSUME Annotated(t) PROVE ReadyInv'
  BY <1>19 DEF Annotated
<1>20. ASSUME OnFault(t) PROVE ReadyInv'
  BY <1>20 DEF OnFault
<1>21. ASSUME Again(t) PROVE ReadyInv'
  BY <1>21 DEF Again
<1>. QED
  BY <1>1, <1>2, <1>3, <1>4, <1>5, <1>6, <1>7, <1>8, <1>9, <1>10, <1>11,
     <1>12, <1>13, <1>14, <1>15, <1>16, <1>17, <1>18, <1>19, <1>20, <1>21
  DEF Step, Proceed, Call

LEMMA HeapStep ==
  ASSUME PrTypeOK, NEW t \in Threads, ThreadInv(t), HeapInv, Step(t)
  PROVE  HeapInv'
<1>0. /\ pc \in [Threads -> PC] /\ back \in [Threads -> Caller]
      /\ guard \in [Threads -> BOOLEAN]
      /\ arg \in [Threads -> Ptr \cup {NoPtr}]
      /\ by \in [Ptr -> {"none", "coffin", "system"}]
      /\ holder \in [Ptr -> {"none", "program", "coffin"}]
  BY DEF PrTypeOK
<1> USE ProcessAssumption, <1>0
    DEF ThreadInv, Balanced, BackOf, HeapInv, HandOut, InsidePC, LockedPC, Caller,
        threadVars, initVars, heapVars, history
<1>1. ASSUME NEW p \in Ptr, AllocNested(t, p) PROVE HeapInv'
  BY <1>1 DEF AllocNested
<1>2. ASSUME AllocBegin(t) PROVE HeapInv'
  BY <1>2 DEF AllocBegin
<1>3. ASSUME NEW p \in Ptr, FreeNested(t, p) PROVE HeapInv'
  BY <1>3 DEF FreeNested
<1>4. ASSUME NEW p \in Ptr, FreeBegin(t, p) PROVE HeapInv'
  BY <1>4 DEF FreeBegin
<1>5. ASSUME Lock(t) PROVE HeapInv'
  BY <1>5 DEF Lock
<1>6. ASSUME AllocEnd(t) PROVE HeapInv'
  BY <1>6 DEF AllocEnd
<1>7. ASSUME FreeEnd(t) PROVE HeapInv'
  BY <1>7 DEF FreeEnd
<1>8. ASSUME Ready(t) PROVE HeapInv'
  BY <1>8 DEF Ready
<1>9. ASSUME FirstCall(t) PROVE HeapInv'
  BY <1>9 DEF FirstCall
<1>10. ASSUME New(t) PROVE HeapInv'
  BY <1>10 DEF New
<1>11. ASSUME CallOnce(t) PROVE HeapInv'
  BY <1>11 DEF CallOnce
<1>12. ASSUME Sigaction(t) PROVE HeapInv'
  BY <1>12 DEF Sigaction
<1>13. ASSUME Arm(t) PROVE HeapInv'
  BY <1>13 DEF Arm
<1>14. ASSUME PanicEnd(t) PROVE HeapInv'
  BY <1>14 DEF PanicEnd
<1>15. ASSUME Fault(t) PROVE HeapInv'
  BY <1>15 DEF Fault
<1>16. ASSUME OverflowStack(t) PROVE HeapInv'
  BY <1>16 DEF OverflowStack
<1>17. ASSUME Report(t) PROVE HeapInv'
  BY <1>17 DEF Report
<1>18. ASSUME Symbolized(t) PROVE HeapInv'
  BY <1>18 DEF Symbolized
<1>19. ASSUME Annotated(t) PROVE HeapInv'
  BY <1>19 DEF Annotated
<1>20. ASSUME OnFault(t) PROVE HeapInv'
  BY <1>20 DEF OnFault
<1>21. ASSUME Again(t) PROVE HeapInv'
  BY <1>21 DEF Again
<1>. QED
  BY <1>1, <1>2, <1>3, <1>4, <1>5, <1>6, <1>7, <1>8, <1>9, <1>10, <1>11,
     <1>12, <1>13, <1>14, <1>15, <1>16, <1>17, <1>18, <1>19, <1>20, <1>21
  DEF Step, Proceed, Call

(* A pointer crosses over to System only from a thread whose guard was     *)
(* left set: what a callee of Coffin holds is System's.                    *)
LEMMA NestedStep ==
  ASSUME PrTypeOK, NEW t \in Threads, ThreadInv(t), HeapInv, NestedFreesAreSystems, Step(t)
  PROVE  NestedFreesAreSystems'
<1> USE DEF NestedFreesAreSystems, threadVars, initVars, heapVars, history
<1>1. ASSUME NEW p \in Ptr, AllocNested(t, p) PROVE NestedFreesAreSystems'
  BY <1>1 DEF AllocNested
<1>2. ASSUME AllocBegin(t) PROVE NestedFreesAreSystems'
  BY <1>2 DEF AllocBegin
<1>3. ASSUME NEW p \in Ptr, FreeNested(t, p) PROVE NestedFreesAreSystems'
  BY <1>3 DEF FreeNested, ThreadInv, Balanced, HeapInv
<1>4. ASSUME NEW p \in Ptr, FreeBegin(t, p) PROVE NestedFreesAreSystems'
  BY <1>4 DEF FreeBegin
<1>5. ASSUME Lock(t) PROVE NestedFreesAreSystems'
  BY <1>5 DEF Lock
<1>6. ASSUME AllocEnd(t) PROVE NestedFreesAreSystems'
  BY <1>6 DEF AllocEnd
<1>7. ASSUME FreeEnd(t) PROVE NestedFreesAreSystems'
  BY <1>7 DEF FreeEnd
<1>8. ASSUME Ready(t) PROVE NestedFreesAreSystems'
  BY <1>8 DEF Ready
<1>9. ASSUME FirstCall(t) PROVE NestedFreesAreSystems'
  BY <1>9 DEF FirstCall
<1>10. ASSUME New(t) PROVE NestedFreesAreSystems'
  BY <1>10 DEF New
<1>11. ASSUME CallOnce(t) PROVE NestedFreesAreSystems'
  BY <1>11 DEF CallOnce
<1>12. ASSUME Sigaction(t) PROVE NestedFreesAreSystems'
  BY <1>12 DEF Sigaction
<1>13. ASSUME Arm(t) PROVE NestedFreesAreSystems'
  BY <1>13 DEF Arm
<1>14. ASSUME PanicEnd(t) PROVE NestedFreesAreSystems'
  BY <1>14 DEF PanicEnd
<1>15. ASSUME Fault(t) PROVE NestedFreesAreSystems'
  BY <1>15 DEF Fault
<1>16. ASSUME OverflowStack(t) PROVE NestedFreesAreSystems'
  BY <1>16 DEF OverflowStack
<1>17. ASSUME Report(t) PROVE NestedFreesAreSystems'
  BY <1>17 DEF Report
<1>18. ASSUME Symbolized(t) PROVE NestedFreesAreSystems'
  BY <1>18 DEF Symbolized
<1>19. ASSUME Annotated(t) PROVE NestedFreesAreSystems'
  BY <1>19 DEF Annotated
<1>20. ASSUME OnFault(t) PROVE NestedFreesAreSystems'
  BY <1>20 DEF OnFault
<1>21. ASSUME Again(t) PROVE NestedFreesAreSystems'
  BY <1>21 DEF Again
<1>. QED
  BY <1>1, <1>2, <1>3, <1>4, <1>5, <1>6, <1>7, <1>8, <1>9, <1>10, <1>11,
     <1>12, <1>13, <1>14, <1>15, <1>16, <1>17, <1>18, <1>19, <1>20, <1>21
  DEF Step, Proceed, Call

(* The runtime is no thread of ours. *)
LEMMA RuntimeStep ==
  ASSUME PrIInv, RuntimeStart
  PROVE  PrIInv'
<1> USE DEF PrIInv, RuntimeStart, threadVars, heapVars
<1>1. PrTypeOK'
  BY DEF PrTypeOK
<1>2. ASSUME NEW t \in Threads PROVE ThreadInv(t)'
  BY DEF ThreadInv, Balanced, InitOf, BackOf, Inside, GuardOf, InLocked, LockOf, ReadyOf, Initialising
<1>3. OnceInv'
  BY DEF OnceInv
<1>4. ReadyInv'
  <2>1. reg = "ready" => shadowed' = TRUE \/ (disp' = disp /\ shadowed' = shadowed)
    OBVIOUS
  <2>. QED
    BY <2>1 DEF ReadyInv
<1>5. HeapInv'
  BY DEF HeapInv
<1>6. NestedFreesAreSystems'
  BY DEF NestedFreesAreSystems
<1>. QED
  BY <1>1, <1>2, <1>3, <1>4, <1>5, <1>6

LEMMA InitInv == PrInit => PrIInv
<1> SUFFICES ASSUME PrInit PROVE PrIInv
  OBVIOUS
<1> USE ProcessAssumption DEF PrInit
<1>1. PrTypeOK
  BY DEF PrTypeOK, PC, Caller, RegistryPC
<1>2. ASSUME NEW t \in Threads PROVE ThreadInv(t)
  BY DEF ThreadInv, Balanced, InitOf, BackOf, Inside, GuardOf, InLocked, LockOf, ReadyOf, Initialising,
         InsidePC, InitPC, LockedPC, HandlerPC
<1>3. OnceInv /\ ReadyInv /\ HeapInv /\ NestedFreesAreSystems
  BY DEF OnceInv, ReadyInv, HeapInv, NestedFreesAreSystems
<1>. QED
  BY <1>1, <1>2, <1>3 DEF PrIInv

LEMMA StepInv ==
  ASSUME PrIInv, [PrNext]_processVars
  PROVE  PrIInv'
<1>1. ASSUME NEW t \in Threads, Step(t) PROVE PrIInv'
  <2>1. PrTypeOK /\ OnceInv /\ ReadyInv /\ HeapInv /\ NestedFreesAreSystems
        /\ \A u \in Threads : ThreadInv(u)
    BY DEF PrIInv
  <2>2. ASSUME NEW u \in Threads, u # t PROVE ThreadInv(u)'
    BY <1>1, <2>1, <2>2, OtherStep, OthersInv
  <2>3. ThreadInv(t)'
    BY <1>1, <2>1, OwnStep
  <2>4. \A u \in Threads : ThreadInv(u)'
    BY <2>2, <2>3
  <2>. QED
    BY <1>1, <2>1, <2>4, TypeStep, OnceStep, ReadyStep, HeapStep, NestedStep DEF PrIInv
<1>2. CASE RuntimeStart
  BY <1>2, RuntimeStep
<1>3. CASE UNCHANGED processVars
  <2> USE <1>3 DEF PrIInv, processVars, threadVars, initVars, heapVars, history
  <2>1. PrTypeOK'
    BY DEF PrTypeOK
  <2>2. ASSUME NEW u \in Threads PROVE ThreadInv(u)'
    BY DEF ThreadInv, Balanced, InitOf, BackOf, Inside, GuardOf, InLocked, LockOf, ReadyOf, Initialising
  <2>3. OnceInv' /\ ReadyInv' /\ HeapInv' /\ NestedFreesAreSystems'
    BY DEF OnceInv, ReadyInv, HeapInv, NestedFreesAreSystems
  <2>. QED
    BY <2>1, <2>2, <2>3
<1>. QED
  BY <1>1, <1>2, <1>3 DEF PrNext, Step

(* PrIInv is an invariant: the types, what each thread is allowed to be    *)
(* doing with the guard, the lock and the initialisation, and who holds    *)
(* the pointers (lib.rs, registry.rs:134, handler.rs).                     *)
THEOREM PrIInvHolds == PrSpec => []PrIInv
<1>. QED
  BY InitInv, StepInv, PTL DEF PrSpec

(* The guard is set wherever a thread may take or holds the spinlock, and  *)
(* clear in the program unless a handler or a panic has left it set        *)
(* (enter, leave and force_guard, lib.rs).                                 *)
THEOREM GuardHolds == PrSpec => []GuardIsBalanced
<1>1. PrIInv => GuardIsBalanced
  BY DEF PrIInv, ThreadInv, GuardIsBalanced
<1>. QED
  BY <1>1, PrIInvHolds, PTL

(* No thread waits for itself, for the spinlock or for the OnceLock,       *)
(* whatever Coffin calls calls (lib.rs:55-80, registry.rs:131-136).        *)
THEOREM NoSelfWaitHolds == PrSpec => []NoSelfWait
<1>1. PrIInv => NoSelfWait
  BY DEF PrIInv, ThreadInv, NoSelfWait, LockOf, InLocked, InitOf, LockedPC, HandlerPC, InitPC, RegistryPC
<1>. QED
  BY <1>1, PrIInvHolds, PTL

(* The handler never waits for the lock or the registry: nothing it calls  *)
(* enters Coffin (force_guard, lib.rs:86-89; handler.rs:115-123).          *)
THEOREM HandlerHolds == PrSpec => []HandlerNeverWaits
<1>1. PrIInv => HandlerNeverWaits
  BY DEF PrIInv, ThreadInv, HandlerNeverWaits, BackOf
<1>. QED
  BY <1>1, PrIInvHolds, PTL

(* A free that the guard diverts is of a System pointer, as dealloc        *)
(* assumes (lib.rs:138), unless the guard of the thread was left set.      *)
THEOREM NestedFreesHold == PrSpec => []NestedFreesAreSystems
<1>1. PrIInv => NestedFreesAreSystems
  BY DEF PrIInv
<1>. QED
  BY <1>1, PrIInvHolds, PTL

(* While the program holds a fenced pointer its faults reach the handler,  *)
(* unless the runtime or a handler has taken the signal over since         *)
(* (handler.rs:52-62, lib.rs:91-102).                                      *)
THEOREM WatchedHolds == PrSpec => []FencedIsWatched
<1>1. PrIInv => FencedIsWatched
  BY DEF PrIInv, ReadyInv, FencedIsWatched
<1>. QED
  BY <1>1, PrIInvHolds, PTL
=============================================================================
