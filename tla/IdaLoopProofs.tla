----------------------------- MODULE IdaLoopProofs -----------------------------
(***************************************************************************)
(* Proofs about IdaLoop, for any number of callers, any queue capacity and *)
(* any number of database generations.  The tables of Requests enter by    *)
(* four facts (ShapeFacts); IInv is the inductive invariant.               *)
(***************************************************************************)
EXTENDS IdaLoop, TLAPS

-----------------------------------------------------------------------------
(* The tables.                                                             *)

\* The requests whose callers wait with a SideEffectWaitGuard.
SideEffectKinds ==
  {"DebugLaunch", "DebugAttach", "DebugStop", "DscLoadImage", "DscLoadRegion", "RenameLvar",
   "SetLvarType", "SetPseudocodeComment", "AnalyzeFuncs", "RunScript"}

\* The requests whose callers stop waiting at a deadline.
BoundedKinds ==
  {"DebugModules", "ListFunctions", "ListLvars", "ListPseudocodeComments", "Strings",
   "LocalTypes", "Structs", "XRefsTo", "XRefsFrom", "LuminaLookup", "ListGlobals",
   "AnalyzeStrings", "FindString", "XrefsToString", "FindBytes", "SearchText", "SearchImm",
   "FindInsns", "FindInsnOperands"}

Sorted(w) ==
  /\ w.recv = "sideEffect" => w.kind \in SideEffectKinds
  /\ w.recv = "bounded" => w.kind \in BoundedKinds

\* The ways to wait for an answer.
LEMMA WaitsSorted ==
  /\ \A k : Waits(k).recv = "wait" /\ Observed(k).recv = "wait"
  /\ \A k : Bounded(k).recv = "bounded" /\ Bounded(k).kind = k
  /\ \A k : SideEffect(k).recv = "sideEffect" /\ SideEffect(k).kind = k
BY DEF Waits, Observed, Bounded, SideEffect

\* Every method of IdaWorker is in one of the tables it is put together from.
LEMMA MethodEntry ==
  ASSUME NEW m \in DOMAIN IdaWorker
  PROVE  \E T \in {ControlMethods, DebugMethods, AnalysisMethods, DisasmMethods, TypeMethods,
                   StackMethods, XrefMethods, PatchMethods, SearchMethods, InsnMethods,
                   ScriptMethods} : m \in DOMAIN T /\ IdaWorker[m] = T[m]
<1> DEFINE S == {ControlMethods, DebugMethods, AnalysisMethods, DisasmMethods, TypeMethods,
                 StackMethods, XrefMethods, PatchMethods, SearchMethods, InsnMethods,
                 ScriptMethods}
<1>1. IdaWorker = Merged(S)
  BY DEF IdaWorker
<1> HIDE DEF S
<1>2. \E T \in S : m \in DOMAIN T /\ IdaWorker[m] = T[m]
  BY <1>1, MergedEntry
<1> QED BY <1>2, Zenon DEF S

\* Every method waits with a guard, or with a deadline, only for the requests
\* named above.
LEMMA MethodsSorted == \A m \in DOMAIN IdaWorker : Sorted(IdaWorker[m])
<1> USE WaitsSorted DEF Sorted, BoundedKinds, SideEffectKinds
<1>1. \A m \in DOMAIN ControlMethods : Sorted(ControlMethods[m])
  <2>1. DOMAIN ControlMethods = {"open_observed_with_generation", "close_if_generation", "close",
                                 "close_for_shutdown"}
    BY DEF ControlMethods
  <2>2. /\ ControlMethods.open_observed_with_generation.recv = "wait"
        /\ ControlMethods.close.recv = "wait"
        /\ ControlMethods.close_if_generation.recv = "wait"
        /\ ControlMethods.close_for_shutdown.recv = "wait"
    BY DEF ControlMethods, Waits
  <2> QED BY <2>1, <2>2
<1>2. \A m \in DOMAIN DebugMethods : Sorted(DebugMethods[m])
  BY DEF DebugMethods
<1>3. \A m \in DOMAIN AnalysisMethods : Sorted(AnalysisMethods[m])
  BY DEF AnalysisMethods
<1>4. \A m \in DOMAIN DisasmMethods : Sorted(DisasmMethods[m])
  BY DEF DisasmMethods
<1>5. \A m \in DOMAIN TypeMethods : Sorted(TypeMethods[m])
  BY DEF TypeMethods
<1>6. \A m \in DOMAIN StackMethods : Sorted(StackMethods[m])
  BY DEF StackMethods
<1>7. \A m \in DOMAIN XrefMethods : Sorted(XrefMethods[m])
  BY DEF XrefMethods
<1>8. \A m \in DOMAIN PatchMethods : Sorted(PatchMethods[m])
  BY DEF PatchMethods
<1>9. \A m \in DOMAIN SearchMethods : Sorted(SearchMethods[m])
  BY DEF SearchMethods
<1>10. \A m \in DOMAIN InsnMethods : Sorted(InsnMethods[m])
  BY DEF InsnMethods
<1>11. \A m \in DOMAIN ScriptMethods : Sorted(ScriptMethods[m])
  BY DEF ScriptMethods
<1> HIDE DEF Sorted
<1> QED
  BY <1>1, <1>2, <1>3, <1>4, <1>5, <1>6, <1>7, <1>8, <1>9, <1>10, <1>11, MethodEntry

\* Every arm is in one of the tables it is put together from.
LEMMA ArmEntry ==
  ASSUME NEW k \in DOMAIN Arms
  PROVE  \E T \in {DebugArms, AnalysisArms, DisasmArms, LocalArms, TypeArms, StackArms, XrefArms,
                   PatchArms, RenameArms, StringArms, SearchArms, GlobalArms, ScriptArms} :
           k \in DOMAIN T /\ Arms[k] = T[k]
<1> DEFINE S == {DebugArms, AnalysisArms, DisasmArms, LocalArms, TypeArms, StackArms,
                 XrefArms, PatchArms, RenameArms, StringArms, SearchArms, GlobalArms,
                 ScriptArms}
<1>1. Arms = Merged(S)
  BY DEF Arms
<1> HIDE DEF S
<1>2. \E T \in S : k \in DOMAIN T /\ Arms[k] = T[k]
  BY <1>1, MergedEntry
<1> QED BY <1>2, Zenon DEF S

\* The arm of a request whose caller can withdraw claims the admission first
\* (admit_or_reject).
LEMMA ArmsAdmit == \A k \in SideEffectKinds : k \in DOMAIN Arms /\ Arms[k].admits
<1> DEFINE Admits(T) == \A k \in SideEffectKinds \cap DOMAIN T : T[k].admits
<1>1. Admitted.admits
  BY DEF Admitted, Guarded
<1> USE DEF SideEffectKinds
<1>2. Admits(DebugArms) /\ {"DebugLaunch", "DebugAttach", "DebugStop"} \subseteq DOMAIN DebugArms
  BY <1>1 DEF DebugArms
<1>3. Admits(AnalysisArms) /\ {"DscLoadImage", "DscLoadRegion"} \subseteq DOMAIN AnalysisArms
  <2>1. DOMAIN AnalysisArms = {"AnalysisStatus", "DscLoadImage", "DscLoadRegion"}
    BY DEF AnalysisArms
  <2>2. AnalysisArms.DscLoadImage.admits /\ AnalysisArms.DscLoadRegion.admits
    BY DEF AnalysisArms, Admitted, Guarded
  <2> QED BY <2>1, <2>2
<1>4. Admits(LocalArms) /\ {"RenameLvar", "SetLvarType", "SetPseudocodeComment"} \subseteq DOMAIN LocalArms
  BY <1>1 DEF LocalArms
<1>5. Admits(SearchArms) /\ "AnalyzeFuncs" \in DOMAIN SearchArms
  <2>1. DOMAIN SearchArms = {"AnalyzeFuncs", "FindBytes", "SearchText", "SearchImm", "FindInsns",
                             "FindInsnOperands", "SaveDatabase"}
    BY DEF SearchArms
  <2>2. SearchArms.AnalyzeFuncs.admits
    BY DEF SearchArms, Admitted, Guarded
  <2> QED BY <2>1, <2>2
<1>6. Admits(ScriptArms) /\ "RunScript" \in DOMAIN ScriptArms
  <2>1. DOMAIN ScriptArms = {"RunScript"}
    BY DEF ScriptArms
  <2>2. ScriptArms.RunScript.admits
    BY DEF ScriptArms, Admitted, Guarded
  <2> QED BY <2>1, <2>2
<1>7. Admits(DisasmArms) /\ Admits(TypeArms) /\ Admits(StackArms) /\ Admits(XrefArms)
  BY DEF DisasmArms, TypeArms, StackArms, XrefArms
<1>8. Admits(PatchArms) /\ Admits(RenameArms) /\ Admits(StringArms) /\ Admits(GlobalArms)
  BY DEF PatchArms, RenameArms, StringArms, GlobalArms
<1>9. SideEffectKinds \subseteq DOMAIN Arms
  <2>1. DOMAIN DebugArms \cup DOMAIN AnalysisArms \cup DOMAIN LocalArms \cup DOMAIN SearchArms
          \cup DOMAIN ScriptArms \subseteq DOMAIN Arms
    BY MergedIncludes, Zenon DEF Arms
  <2> QED BY <1>2, <1>3, <1>4, <1>5, <1>6, <2>1
<1> HIDE DEF SideEffectKinds
<1> QED BY <1>2, <1>3, <1>4, <1>5, <1>6, <1>7, <1>8, <1>9, ArmEntry

EffectNames == {"write", "save", "analyze", "script", "debugStart", "debugStop"}

\* Every handler with an effect is in one of the tables they come from.
LEMMA EffectEntry ==
  ASSUME NEW k \in DOMAIN Effects
  PROVE  \E T \in {AnnotationEffects, TypeEffects, LocalEffects, PatchEffects, LuminaEffects,
                   DscuEffects, DatabaseEffects, AnalyzeEffects, ScriptEffects,
                   DebuggerEffects} : k \in DOMAIN T /\ Effects[k] = T[k]
BY MergedEntry, Zenon DEF Effects

\* Handlers of requests with a deadline only read, and no handler does what
\* the control requests do.
LEMMA EffectsSorted ==
  \A k \in DOMAIN Effects : k \notin BoundedKinds \cup ControlKinds /\ Effects[k] \in EffectNames
<1> DEFINE Fits(T) == \A k \in DOMAIN T : k \notin BoundedKinds \cup ControlKinds /\ T[k] \in EffectNames
<1> USE DEF BoundedKinds, ControlKinds, EffectNames
<1>1. Fits(AnnotationEffects) /\ Fits(LocalEffects)
  BY DEF AnnotationEffects, LocalEffects
<1>2. Fits(TypeEffects) /\ Fits(PatchEffects)
  BY DEF TypeEffects, PatchEffects
<1>3. Fits(LuminaEffects) /\ Fits(DscuEffects) /\ Fits(DatabaseEffects)
  BY DEF LuminaEffects, DscuEffects, DatabaseEffects
<1>4. Fits(AnalyzeEffects) /\ Fits(ScriptEffects) /\ Fits(DebuggerEffects)
  BY DEF AnalyzeEffects, ScriptEffects, DebuggerEffects
<1> HIDE DEF BoundedKinds, ControlKinds, EffectNames
<1> QED BY <1>1, <1>2, <1>3, <1>4, EffectEntry

\* What the proofs need to know of the tables: a request that can be withdrawn
\* is claimed before it runs; one whose caller gives up without withdrawing it
\* only reads; and Close is not bound to a generation.
LEMMA ShapeFacts ==
  ASSUME NEW s \in Shapes
  PROVE  /\ s.recv = "sideEffect" => s.arm.admits /\ s.effect \in EffectNames \cup {"read"}
         /\ s.recv = "bounded" => s.effect = "read"
         /\ s.effect = "Close" => ~s.arm.bound
<1>1. PICK m \in DOMAIN IdaWorker : s = Shape(m)
  BY DEF Shapes
<1> DEFINE k == IdaWorker[m].kind
<1>2. /\ s.recv = IdaWorker[m].recv
      /\ s.arm = ArmOf(k)
      /\ s.effect = EffectOf(k)
  BY <1>1 DEF Shape
<1>3. Sorted(IdaWorker[m])
  BY MethodsSorted
<1>4. SideEffectKinds \cap ControlKinds = {} /\ BoundedKinds \cap ControlKinds = {}
  BY DEF SideEffectKinds, BoundedKinds, ControlKinds
<1>5. EffectOf(k) \in (IF k \in ControlKinds THEN {k} ELSE EffectNames \cup {"read"})
  BY EffectsSorted DEF EffectOf
<1>6. k \in BoundedKinds => EffectOf(k) = "read"
  BY <1>4, EffectsSorted DEF EffectOf
<1>7. k \in SideEffectKinds => ArmOf(k).admits
  BY <1>4, ArmsAdmit DEF ArmOf
<1>8. EffectOf(k) = "Close" => ~ArmOf(k).bound
  <2>1. EffectOf(k) = "Close" => k \in ControlKinds
    BY <1>5 DEF EffectNames
  <2>2. \A t : [Bare EXCEPT !.token = t].bound = FALSE
    BY DEF Bare, Guarded
  <2> QED BY <2>1, <2>2 DEF ArmOf
<1> QED BY <1>2, <1>3, <1>4, <1>5, <1>6, <1>7, <1>8 DEF Sorted

-----------------------------------------------------------------------------
(* Requests as records.                                                    *)

\* The shape an idle caller's record shows is one of the table.
LEMMA IdleType == Idle \in CallType /\ Idle.ran = 0 /\ Idle.answer = "none" /\ Idle.state = "done"
<1>1. "segments" \in DOMAIN IdaWorker
  <2>1. "segments" \in DOMAIN TypeMethods
    BY DEF TypeMethods
  <2> QED BY <2>1, MergedIncludes, Zenon DEF IdaWorker
<1>2. Shape("segments") \in Shapes
  BY <1>1 DEF Shapes
<1> QED BY <1>2, BoundsAssumption DEF Idle, CallType, States

\* A new request.
LEMMA SentFields ==
  ASSUME NEW s \in Shapes, NEW g \in 0 .. MaxGeneration
  PROVE  /\ Sent(s, g) \in CallType
         /\ Sent(s, g).state = "done" /\ Sent(s, g).shape = s /\ Sent(s, g).expects = g
         /\ Sent(s, g).admission = "queued" /\ Sent(s, g).ran = 0 /\ Sent(s, g).answer = "none"
BY IdleType DEF Sent, Idle, CallType, States

\* An answer ends the wait and changes nothing else.
LEMMA ToldFields ==
  ASSUME NEW r \in CallType, NEW a
  PROVE  /\ Told(r, a) \in CallType
         /\ Told(r, a).state = "done" /\ Told(r, a).answer = Verdict(a)
         /\ Told(r, a).shape = r.shape /\ Told(r, a).expects = r.expects
         /\ Told(r, a).admission = r.admission /\ Told(r, a).ran = r.ran
<1>1. Verdict(a) \in {"sent", "refused", "served"}
  BY DEF Verdict
<1> QED BY <1>1 DEF Told, CallType, States

\* A request that is over keeps what it did and what its caller relies on.
LEMMA ConsumedFields ==
  ASSUME NEW r \in CallType
  PROVE  /\ Consumed(r) \in CallType
         /\ Consumed(r).state = r.state /\ Consumed(r).ran = r.ran
         /\ Consumed(r).answer = "refused" <=> r.answer = "refused"
         /\ Consumed(r).admission = "cancelled" <=> r.admission = "cancelled"
         /\ Consumed(r).admission # "started"
         /\ r.ran # 0 => Consumed(r).expects = r.expects
BY IdleType DEF Consumed, CallType

-----------------------------------------------------------------------------
(* The channel.                                                            *)

InFlight(c) == c = loop.call \/ \E i \in DOMAIN queue : queue[i] = c

\* A request is bound to a generation only if its arm or its handler checks it.
Checked(r) == r.expects # 0 => r.shape.arm.bound \/ r.shape.effect = "CloseIfGeneration"

\* What a caller may rely on, and what GenerationBound asks for.
Honest(r) ==
  /\ r.admission = "cancelled" \/ r.answer = "refused" => r.ran = 0
  /\ r.ran # 0 /\ r.expects # 0 => r.ran = r.expects
  /\ r.state # "done" => r.ran = 0

\* A request in the channel or in the loop has changed nothing yet; its caller
\* was told so only if it reads, or if it has been withdrawn.
Pending(r) ==
  /\ r.ran = 0 /\ r.state # "sending" /\ Checked(r)
  /\ r.answer = "refused" => r.shape.recv = "bounded" \/ r.admission = "cancelled"
  /\ r.admission = "cancelled" => r.shape.recv = "sideEffect"

\* A request that waits for room in the channel.
Unsent(r) == r.ran = 0 /\ r.admission = "queued" /\ r.answer # "refused" /\ Checked(r)

RequestInv ==
  \A c \in Calls :
    /\ Honest(call[c])
    /\ InFlight(c) => Pending(call[c])
    /\ call[c].state = "sending" => ~InFlight(c) /\ Unsent(call[c])

\* A request whose handler runs has passed the checks of its arm.
ServedInv ==
  loop.phase = "running" =>
    /\ Req.shape.effect \notin {"Shutdown", "Close", "CloseIfGeneration"}
    /\ Req.shape.arm.admits => Req.admission = "started"
    /\ Req.shape.arm.bound /\ Req.expects # 0 => Req.expects = ida.generation

\* A caller has at most one request in the channel and the loop.
OnceInv ==
  /\ loop.phase \in {"taken", "running"} => loop.call \in Calls
  /\ loop.phase \notin {"taken", "running"} => loop.call = NoCall
  /\ \A i, j \in DOMAIN queue : queue[i] = queue[j] => i = j
  /\ \A i \in DOMAIN queue : queue[i] # loop.call

ChannelType ==
  /\ call \in [Calls -> CallType]
  /\ queue \in Seq(Calls) /\ Len(queue) <= Capacity
  /\ loop \in [phase : {"idle", "taken", "running", "exited", "killed"}, call : Calls \cup {NoCall}]

ChannelInv == ChannelType /\ OnceInv /\ RequestInv /\ ServedInv

\* What a caller may do to its record while its request stays where it is.
LEMMA CallerKeeps ==
  ASSUME ChannelInv, NEW c \in Calls, NEW r \in CallType,
         call' = [call EXCEPT ![c] = r], UNCHANGED <<queue, loop, ida>>,
         Honest(r),
         InFlight(c) => /\ Pending(r) /\ r.shape = call[c].shape /\ r.expects = call[c].expects
                        /\ call[c].shape.arm.admits /\ call[c].admission = "started"
                             => r.admission = "started",
         r.state = "sending" => ~InFlight(c) /\ Unsent(r)
  PROVE  ChannelInv'
<1>1. ChannelType' /\ OnceInv'
  BY DEF ChannelInv, ChannelType, OnceInv
<1>2. \A d \in Calls : InFlight(d)' <=> InFlight(d)
  BY DEF InFlight
<1>3. \A d \in Calls : call'[d] = IF d = c THEN r ELSE call[d]
  BY DEF ChannelInv, ChannelType
<1>4. RequestInv'
  BY <1>2, <1>3 DEF ChannelInv, RequestInv
<1>5. ServedInv'
  <2> SUFFICES ASSUME loop.phase = "running"
               PROVE  ServedInv'
    BY DEF ServedInv
  <2>1. loop.call \in Calls
    BY DEF ChannelInv, OnceInv
  <2>2. Req' = IF loop.call = c THEN r ELSE Req
    BY <1>3, <2>1 DEF Req, Current
  <2>3. InFlight(loop.call)
    BY DEF InFlight
  <2> QED BY <2>1, <2>2, <2>3 DEF ChannelInv, ServedInv, Req, Current
<1> QED BY <1>1, <1>4, <1>5 DEF ChannelInv

\* A request that enters the channel.
LEMMA EnqueueKeeps ==
  ASSUME ChannelInv, NEW c \in Calls, NEW r \in CallType, ~InFlight(c), Unsent(r),
         Enqueue(c, r), UNCHANGED <<loop, ida>>
  PROVE  ChannelInv'
<1> DEFINE q == IF r.shape.recv = "none" THEN Told(r, "sent") ELSE [r EXCEPT !.state = "waiting"]
<1>1. /\ q \in CallType /\ q.ran = 0 /\ q.state # "sending" /\ q.answer # "refused"
      /\ q.admission = "queued" /\ Checked(q)
  <2>1. CASE r.shape.recv = "none"
    BY <2>1, ToldFields DEF Unsent, Checked, Verdict, Refusals
  <2>2. CASE r.shape.recv # "none"
    BY <2>2 DEF Unsent, Checked, CallType, States
  <2> QED BY <2>1, <2>2
<1>2. Honest(q) /\ Pending(q)
  BY <1>1 DEF Honest, Pending
<1>3. call' = [call EXCEPT ![c] = q] /\ queue' = Append(queue, c) /\ Len(queue) < Capacity
  BY DEF Enqueue
<1> HIDE DEF q
<1>4. queue \in Seq(Calls) /\ call \in [Calls -> CallType]
  BY DEF ChannelInv, ChannelType
<1>5. /\ queue' \in Seq(Calls) /\ Len(queue') = Len(queue) + 1
      /\ DOMAIN queue = 1 .. Len(queue) /\ DOMAIN queue' = 1 .. Len(queue) + 1
      /\ Len(queue) \in Nat
      /\ \A i \in 1 .. Len(queue) : queue'[i] = queue[i]
      /\ queue'[Len(queue) + 1] = c
  BY <1>3, <1>4
<1>6. ChannelType'
  BY <1>1, <1>3, <1>4, <1>5, BoundsAssumption DEF ChannelInv, ChannelType
<1>7. OnceInv'
  BY <1>5 DEF ChannelInv, OnceInv, InFlight
<1>8. \A d \in Calls : d # c => (InFlight(d)' <=> InFlight(d)) /\ call'[d] = call[d]
  BY <1>3, <1>4, <1>5 DEF InFlight
<1>9. RequestInv'
  BY <1>1, <1>2, <1>3, <1>4, <1>8 DEF ChannelInv, RequestInv
<1>10. loop.phase = "running" => Req' = Req
  BY <1>8 DEF ChannelInv, OnceInv, InFlight, Req, Current
<1>11. ServedInv'
  BY <1>10 DEF ChannelInv, ServedInv
<1> QED BY <1>6, <1>7, <1>9, <1>11 DEF ChannelInv

\* At the start nothing is in the channel.
LEMMA ChannelInit == Init => ChannelInv
<1> SUFFICES ASSUME Init PROVE ChannelInv
  OBVIOUS
<1>1. ChannelType /\ OnceInv
  BY IdleType, CallsAssumption, BoundsAssumption DEF Init, ChannelType, OnceInv
<1>2. \A c \in Calls : Honest(call[c]) /\ ~InFlight(c) /\ call[c].state # "sending"
  BY IdleType, CallsAssumption DEF Init, Honest, InFlight, Idle
<1> QED BY <1>1, <1>2 DEF Init, ChannelInv, RequestInv, ServedInv

\* The loop is done with its request.
LEMMA ReturnKeeps ==
  ASSUME ChannelInv, loop.phase \in {"taken", "running"}, NEW r \in CallType, Honest(r),
         r.state # "sending", call' = [call EXCEPT ![Current] = r], Return, UNCHANGED queue
  PROVE  ChannelInv'
<1>1. Current \in Calls /\ call \in [Calls -> CallType]
  BY DEF ChannelInv, ChannelType, OnceInv, Current
<1>2. loop'.call = NoCall /\ loop'.phase = "idle"
  BY DEF Return
<1>3. ChannelType' /\ OnceInv'
  BY <1>1, <1>2, CallsAssumption DEF ChannelInv, ChannelType, OnceInv, Return
<1>4. \A c \in Calls : InFlight(c)' => InFlight(c) /\ c # Current
  BY <1>2, CallsAssumption DEF ChannelInv, OnceInv, InFlight, Current
<1>5. \A c \in Calls : call'[c] = IF c = Current THEN r ELSE call[c]
  BY <1>1
<1>6. RequestInv'
  BY <1>4, <1>5 DEF ChannelInv, RequestInv
<1> QED BY <1>2, <1>3, <1>6 DEF ChannelInv, ServedInv

\* The request the loop holds.
LEMMA TakenFacts ==
  ASSUME ChannelInv, loop.phase \in {"taken", "running"}
  PROVE  /\ Current \in Calls /\ Req \in CallType /\ Req.shape \in Shapes
         /\ Pending(Req) /\ Honest(Req)
BY DEF ChannelInv, ChannelType, OnceInv, RequestInv, InFlight, Req, Current, CallType

\* An answer to a request that changed nothing, whatever the answer.
LEMMA HarmlessHonest ==
  ASSUME NEW r \in CallType, r.ran = 0, r.state # "sending", NEW a
  PROVE  /\ Consumed(ToldBy(r, a)) \in CallType /\ Honest(Consumed(ToldBy(r, a)))
         /\ Consumed(ToldBy(r, a)).state # "sending"
<1>1. /\ ToldBy(r, a) \in CallType /\ ToldBy(r, a).ran = 0
      /\ ToldBy(r, a).state # "sending"
  BY ToldFields DEF ToldBy
<1> QED BY <1>1, ConsumedFields DEF Honest

\* The answer of a handler to a request that changed something.
LEMMA ServedHonest ==
  ASSUME NEW r \in CallType, NEW a, Verdict(a) = "served", r.state # "sending",
         r.admission # "cancelled", r.answer # "refused", r.expects # 0 => r.ran = r.expects
  PROVE  /\ Consumed(ToldBy(r, a)) \in CallType /\ Honest(Consumed(ToldBy(r, a)))
         /\ Consumed(ToldBy(r, a)).state # "sending"
<1>1. /\ ToldBy(r, a) \in CallType /\ ToldBy(r, a).state = "done"
      /\ ToldBy(r, a).answer # "refused" /\ ToldBy(r, a).admission # "cancelled"
      /\ ToldBy(r, a).ran = r.ran /\ ToldBy(r, a).expects = r.expects
  BY ToldFields DEF ToldBy, CallType, States
<1> QED BY <1>1, ConsumedFields DEF Honest

\* A request that changes something has a caller who was not told otherwise.
LEMMA RunningIsTrusted ==
  ASSUME ChannelInv, loop.phase = "running", Mutates(Req.shape)
  PROVE  /\ Req.admission # "cancelled" /\ Req.answer # "refused"
         /\ Req.expects # 0 => Req.expects = ida.generation
<1>1. Pending(Req) /\ Req.shape \in Shapes
  BY TakenFacts
<1>2. Req.shape.recv # "bounded"
  BY <1>1, ShapeFacts DEF Mutates
<1>3. Req.admission # "cancelled"
  BY <1>1, ShapeFacts DEF Pending, ChannelInv, ServedInv
<1>4. Req.expects # 0 => Req.shape.arm.bound
  BY <1>1 DEF Pending, Checked, ChannelInv, ServedInv
<1> QED BY <1>1, <1>2, <1>3, <1>4 DEF Pending, ChannelInv, ServedInv

-----------------------------------------------------------------------------
(* The database.                                                           *)

\* The crash guard remembers exactly the crashes that left a database behind,
\* and nothing runs on one.
CrashInv ==
  /\ ida.crashed <=> ida.database = "corrupt"
  /\ ida.crashed => ida.stray /\ loop.phase \notin {"taken", "running"}

DatabaseInv ==
  /\ ida \in IdaType
  /\ LockFollowsDatabase /\ NeverSavesCorrupt /\ CrashInv /\ DebuggeeOwned

IInv == ChannelInv /\ DatabaseInv

-----------------------------------------------------------------------------
(* Every step keeps the channel in order.                                  *)

LEMMA SubmitKeeps == ASSUME IInv, NEW c \in Calls, Submit(c) PROVE ChannelInv'
<1>1. ~InFlight(c) /\ UNCHANGED <<loop, ida>>
  BY DEF Submit, Free, InFlight
<1> DEFINE Sends(r) ==
      \/ Enqueue(c, r)
      \/ \E a \in {"closed", "busy"} : Answered(c, Consumed(r), a)
      \/ call' = [call EXCEPT ![c] = [r EXCEPT !.state = "sending"]] /\ UNCHANGED queue
<1>2a. PICK s \in Shapes : \E g \in Expectations(s) : Sends(Sent(s, g))
  BY DEF Submit
<1>2. PICK g \in Expectations(s) : Sends(Sent(s, g))
  BY <1>2a
<1> DEFINE r == Sent(s, g)
<1>3. g \in 0 .. MaxGeneration /\ (g # 0 => s.arm.bound \/ s.effect = "CloseIfGeneration")
  <2>1. ida.last \in 0 .. MaxGeneration
    BY DEF IInv, DatabaseInv, IdaType
  <2> QED BY <2>1, BoundsAssumption DEF Expectations
<1>4. r \in CallType /\ Unsent(r)
  BY <1>3, SentFields DEF Unsent, Checked
<1>5. CASE Enqueue(c, r)
  BY <1>1, <1>4, <1>5, EnqueueKeeps DEF IInv
<1>6. ASSUME NEW a \in {"closed", "busy"}, Answered(c, Consumed(r), a)
      PROVE  ChannelInv'
  <2>1. /\ Told(Consumed(r), a) \in CallType /\ Told(Consumed(r), a).ran = 0
        /\ Told(Consumed(r), a).state = "done"
    BY <1>3, <1>4, SentFields, ConsumedFields, ToldFields
  <2> QED BY <1>1, <1>6, <2>1, CallerKeeps DEF IInv, Answered, Honest
<1>7. CASE /\ call' = [call EXCEPT ![c] = [r EXCEPT !.state = "sending"]]
           /\ UNCHANGED queue
  <2> DEFINE q == [r EXCEPT !.state = "sending"]
  <2>1. q \in CallType /\ Honest(q) /\ Unsent(q)
    BY <1>4 DEF CallType, States, Unsent, Checked, Honest
  <2> QED BY <1>1, <1>7, <2>1, CallerKeeps DEF IInv
<1> QED BY <1>2, <1>5, <1>6, <1>7

LEMMA SendingKeeps == ASSUME ChannelInv, NEW c \in Calls, Resend(c) \/ GiveUp(c) PROVE ChannelInv'
<1>1. /\ ~InFlight(c) /\ Unsent(call[c]) /\ call[c] \in CallType
      /\ UNCHANGED <<loop, ida>>
  BY DEF ChannelInv, ChannelType, RequestInv, Resend, GiveUp
<1>2. CASE Enqueue(c, call[c])
  BY <1>1, <1>2, EnqueueKeeps
<1>3. ASSUME NEW a, Answered(c, Consumed(call[c]), a)
      PROVE  ChannelInv'
  <2> DEFINE r == Told(Consumed(call[c]), a)
  <2>1. r \in CallType /\ r.ran = 0 /\ r.state = "done"
    BY <1>1, ConsumedFields, ToldFields DEF Unsent
  <2> QED BY <1>1, <1>3, <2>1, CallerKeeps DEF Answered, Honest
<1> QED BY <1>2, <1>3 DEF Resend, GiveUp

LEMMA DeadlineKeeps ==
  ASSUME ChannelInv, NEW c \in Calls, ReadDeadline(c) \/ SideEffectDeadline(c)
  PROVE  ChannelInv'
<1>1. /\ call[c] \in CallType /\ Honest(call[c]) /\ call[c].ran = 0
      /\ InFlight(c) => Pending(call[c])
      /\ call[c].state = "waiting" /\ UNCHANGED <<loop, ida>>
  BY DEF ChannelInv, ChannelType, RequestInv, ReadDeadline, SideEffectDeadline, Honest
<1>2. CASE call[c].shape.recv = "bounded" /\ Answered(c, call[c], "timeout")
  <2> DEFINE r == Told(call[c], "timeout")
  <2>1. /\ r \in CallType /\ Honest(r) /\ r.state # "sending"
        /\ InFlight(c) => Pending(r)
        /\ r.shape = call[c].shape /\ r.expects = call[c].expects
        /\ r.admission = call[c].admission
    BY <1>1, <1>2, ToldFields DEF Honest, Pending, Checked
  <2> QED BY <1>1, <1>2, <2>1, CallerKeeps DEF Answered
<1>3. CASE /\ call[c].shape.recv = "sideEffect" /\ call[c].admission = "queued"
           /\ Answered(c, Withdrawn(call[c]), "timeout")
  <2> DEFINE w == Withdrawn(call[c])
             r == Told(w, "timeout")
  <2>1. /\ w \in CallType /\ w.shape = call[c].shape /\ w.expects = call[c].expects
        /\ w.admission = "cancelled" /\ w.ran = 0
    BY <1>1, <1>3 DEF Withdrawn, CallType
  <2>2. /\ r \in CallType /\ Honest(r) /\ r.state # "sending"
        /\ InFlight(c) => Pending(r)
        /\ r.shape = call[c].shape /\ r.expects = call[c].expects
    BY <1>1, <1>3, <2>1, ToldFields DEF Honest, Pending, Checked
  <2> QED BY <1>1, <1>3, <2>2, CallerKeeps DEF Answered
<1>4. CASE call' = [call EXCEPT ![c].state = "late"] /\ UNCHANGED queue
  <2> DEFINE r == [call[c] EXCEPT !.state = "late"]
  <2>1. /\ r \in CallType /\ Honest(r) /\ r.state # "sending"
        /\ InFlight(c) => Pending(r)
        /\ r.shape = call[c].shape /\ r.expects = call[c].expects
        /\ r.admission = call[c].admission
    BY <1>1 DEF Honest, Pending, Checked, CallType, States
  <2> QED BY <1>1, <1>4, <2>1, CallerKeeps
<1> QED BY <1>2, <1>3, <1>4 DEF ReadDeadline, SideEffectDeadline

LEMMA AbandonKeeps == ASSUME ChannelInv, NEW c \in Calls, Abandon(c) PROVE ChannelInv'
<1> DEFINE w == IF call[c].shape.recv = "sideEffect" THEN Withdrawn(call[c]) ELSE call[c]
           r == [(IF w.state = "sending" THEN Consumed(w) ELSE w) EXCEPT !.state = "done"]
<1>1. /\ call' = [call EXCEPT ![c] = r] /\ UNCHANGED <<queue, loop, ida>>
      /\ call[c] \in CallType /\ call[c].state \in {"sending", "waiting", "late"}
      /\ Honest(call[c]) /\ call[c].ran = 0
      /\ InFlight(c) => Pending(call[c])
      /\ call[c].state = "sending" => ~InFlight(c)
  BY DEF ChannelInv, ChannelType, RequestInv, Abandon, Honest
<1>2. /\ w \in CallType /\ w.state = call[c].state /\ w.ran = 0 /\ w.shape = call[c].shape
      /\ w.expects = call[c].expects /\ w.answer = call[c].answer
      /\ \/ w.admission = call[c].admission
         \/ /\ call[c].shape.recv = "sideEffect" /\ call[c].admission = "queued"
            /\ w.admission = "cancelled"
  <2>1. CASE w = call[c]
    <3> HIDE DEF w, r
    <3> QED BY <1>1, <2>1
  <2>2. CASE /\ call[c].shape.recv = "sideEffect" /\ call[c].admission = "queued"
             /\ w = [call[c] EXCEPT !.admission = "cancelled"]
    <3> HIDE DEF w
    <3> QED BY <1>1, <2>2 DEF CallType
  <2> QED BY <2>1, <2>2 DEF Withdrawn
<1> HIDE DEF w
<1>3. r \in CallType /\ r.ran = 0 /\ r.state = "done"
  BY <1>2, ConsumedFields DEF CallType, States
<1>4. InFlight(c) => /\ Pending(r) /\ r.shape = call[c].shape /\ r.expects = call[c].expects
                     /\ call[c].admission = "started" => r.admission = "started"
  <2> SUFFICES ASSUME InFlight(c)
               PROVE  /\ Pending(r) /\ r.shape = call[c].shape /\ r.expects = call[c].expects
                      /\ call[c].admission = "started" => r.admission = "started"
    OBVIOUS
  <2>1. r = [w EXCEPT !.state = "done"]
    BY <1>1, <1>2
  <2>2. /\ r.shape = w.shape /\ r.expects = w.expects /\ r.admission = w.admission
        /\ r.answer = w.answer
    BY <1>2, <2>1 DEF CallType
  <2> QED BY <1>1, <1>2, <1>3, <2>2 DEF Pending, Checked
<1>5. Honest(r)
  BY <1>3 DEF Honest
<1> HIDE DEF r
<1> QED BY <1>1, <1>3, <1>4, <1>5, CallerKeeps

LEMMA CancelTokenKeeps == ASSUME ChannelInv, NEW c \in Calls, CancelToken(c) PROVE ChannelInv'
<1> DEFINE r == [call[c] EXCEPT !.cancelled = TRUE]
<1>1. /\ call' = [call EXCEPT ![c] = r] /\ UNCHANGED <<queue, loop, ida>>
      /\ call[c] \in CallType /\ call[c].state = "waiting" /\ Honest(call[c])
      /\ InFlight(c) => Pending(call[c])
  BY DEF ChannelInv, ChannelType, RequestInv, CancelToken
<1>2. /\ r \in CallType /\ Honest(r) /\ r.state # "sending"
      /\ InFlight(c) => Pending(r)
      /\ r.shape = call[c].shape /\ r.expects = call[c].expects
      /\ r.admission = call[c].admission
  BY <1>1 DEF Honest, Pending, Checked, CallType
<1> QED BY <1>1, <1>2, CallerKeeps

LEMMA ReceiveKeeps == ASSUME ChannelInv, Receive PROVE ChannelInv'
<1>1. /\ queue \in Seq(Calls) /\ queue # <<>> /\ queue' = Tail(queue) /\ UNCHANGED call
      /\ loop' = [phase |-> "taken", call |-> Head(queue)] /\ Len(queue) <= Capacity
  BY DEF Receive, ChannelInv, ChannelType
<1>2. /\ Head(queue) \in Calls /\ Head(queue) = queue[1] /\ queue' \in Seq(Calls)
      /\ Len(queue) \in Nat \ {0} /\ Len(queue') = Len(queue) - 1
      /\ DOMAIN queue = 1 .. Len(queue) /\ DOMAIN queue' = 1 .. Len(queue) - 1
      /\ \A i \in 1 .. Len(queue) - 1 : queue'[i] = queue[i + 1]
  BY <1>1
<1>3. ChannelType'
  BY <1>1, <1>2, BoundsAssumption DEF ChannelInv, ChannelType
<1>4. \A i, j \in DOMAIN queue : queue[i] = queue[j] => i = j
  BY DEF ChannelInv, OnceInv
<1>5. \A i \in DOMAIN queue' : queue'[i] # queue[1] /\ i + 1 \in DOMAIN queue /\ i \in Nat
  BY <1>2, <1>4
<1>6. OnceInv'
  BY <1>1, <1>2, <1>4, <1>5 DEF OnceInv
<1>7. \A c \in Calls : InFlight(c)' => InFlight(c)
  BY <1>1, <1>2 DEF InFlight
<1>8. RequestInv'
  BY <1>1, <1>7 DEF ChannelInv, RequestInv
<1> QED BY <1>1, <1>3, <1>6, <1>8 DEF ChannelInv, ServedInv

\* A reply to a request that changed nothing.
LEMMA ReplyKeeps ==
  ASSUME ChannelInv, loop.phase \in {"taken", "running"}, NEW a, Reply(a), Return, UNCHANGED queue
  PROVE  ChannelInv'
<1>1. Req \in CallType /\ Req.ran = 0 /\ Req.state # "sending"
  BY TakenFacts DEF Pending
<1> QED BY <1>1, HarmlessHonest, ReturnKeeps DEF Reply

LEMMA InitialiseKeeps == ASSUME ChannelInv, Initialise PROVE ChannelInv'
<1>1. UNCHANGED <<call, queue, loop>> /\ loop.phase = "taken"
  BY DEF Initialise
<1> QED BY <1>1 DEF ChannelInv, ChannelType, OnceInv, RequestInv, InFlight, ServedInv

\* A request that was cut off while it waited in the channel changed nothing.
LEMMA ExitKeeps == ASSUME ChannelInv, loop.phase = "taken", Exit PROVE ChannelInv'
<1>1. loop' = [phase |-> "exited", call |-> NoCall] /\ queue' = <<>>
  BY DEF Exit
<1>2. ASSUME NEW c \in Calls
      PROVE  /\ call'[c] \in CallType /\ Honest(call'[c])
             /\ call'[c].state = "sending" => Unsent(call'[c])
  <2>1. call[c] \in CallType /\ Honest(call[c])
    BY DEF ChannelInv, ChannelType, RequestInv
  <2>2. CASE InFlight(c)
    <3>1. call[c].ran = 0 /\ call[c].state # "sending"
      BY <2>2 DEF ChannelInv, RequestInv, Pending
    <3>2. \/ call'[c] = Consumed(ToldBy(call[c], "closed"))
          \/ call'[c] = Consumed(call[c])
      BY <2>2 DEF Exit, InFlight, Current
    <3>3. \A r \in CallType : r.ran = 0 /\ r.state # "sending" =>
            Consumed(r) \in CallType /\ Honest(Consumed(r)) /\ Consumed(r).state # "sending"
      BY ConsumedFields DEF Honest
    <3> QED BY <2>1, <3>1, <3>2, <3>3, HarmlessHonest
  <2>3. CASE ~InFlight(c)
    <3>1. call'[c] = call[c]
      BY <2>3 DEF Exit, InFlight, Current
    <3> QED BY <2>1, <3>1 DEF ChannelInv, RequestInv
  <2> QED BY <2>2, <2>3
<1>3. call' \in [Calls -> CallType]
  BY <1>2 DEF Exit
<1>4. ChannelType' /\ OnceInv'
  BY <1>1, <1>3, CallsAssumption, BoundsAssumption DEF ChannelType, OnceInv
<1>5. \A c \in Calls : ~InFlight(c)'
  BY <1>1, CallsAssumption DEF InFlight
<1>6. RequestInv'
  BY <1>2, <1>5 DEF RequestInv
<1> QED BY <1>1, <1>4, <1>6 DEF ChannelInv, ServedInv

LEMMA CloseKeeps == ASSUME IInv, Close PROVE ChannelInv'
<1>1. /\ Req \in CallType /\ Req.shape \in Shapes /\ Pending(Req)
      /\ loop.phase = "taken" /\ Return /\ UNCHANGED queue
  BY TakenFacts DEF Close, IInv
<1>2. Req.admission # "cancelled" /\ Req.answer # "refused"
  BY <1>1, ShapeFacts DEF Close, Pending, EffectNames
<1>3. Req.expects # 0 => Req.expects = ida.generation
  BY <1>1, ShapeFacts DEF Close, Pending, Checked
<1> DEFINE r == [Req EXCEPT !.ran = ida.generation]
<1>4. CASE call' = [call EXCEPT ![Current] = Consumed(ToldBy(r, "ok"))]
  <2>1. /\ r \in CallType /\ r.state = Req.state /\ r.admission = Req.admission
        /\ r.answer = Req.answer /\ r.expects = Req.expects /\ r.ran = ida.generation
    BY <1>1, <1>4 DEF CallType, IInv, DatabaseInv, IdaType
  <2>2. Verdict("ok") = "served"
    BY DEF Verdict, Refusals
  <2> HIDE DEF r
  <2>3. /\ Consumed(ToldBy(r, "ok")) \in CallType /\ Honest(Consumed(ToldBy(r, "ok")))
        /\ Consumed(ToldBy(r, "ok")).state # "sending"
    BY <1>1, <1>2, <1>3, <2>1, <2>2, ServedHonest DEF Pending
  <2> QED BY <1>1, <1>4, <2>3, ReturnKeeps DEF IInv
<1>5. CASE Reply("error")
  BY <1>1, <1>5, ReplyKeeps DEF IInv
<1> QED BY <1>4, <1>5 DEF Close

\* A handler starts with every check of its arm behind it.
LEMMA DispatchKeeps == ASSUME ChannelInv, Dispatch PROVE ChannelInv'
<1>1. /\ Req \in CallType /\ Pending(Req) /\ Honest(Req) /\ Current \in Calls
      /\ loop.phase = "taken" /\ UNCHANGED <<queue, ida>>
      /\ Req.shape.effect \notin {"Shutdown", "Close", "CloseIfGeneration"}
  BY TakenFacts DEF Dispatch
<1>2. CASE Reply("expired") /\ Return
  BY <1>1, <1>2, ReplyKeeps
<1> DEFINE r == IF Req.shape.arm.admits THEN [Req EXCEPT !.admission = "started"] ELSE Req
<1>3. ASSUME Req.shape.arm.admits => Req.admission = "queued"
      PROVE  /\ r \in CallType /\ Pending(r) /\ Honest(r)
             /\ r.shape = Req.shape /\ r.expects = Req.expects
             /\ r.shape.arm.admits => r.admission = "started"
  <2>1. CASE Req.shape.arm.admits
    <3>1. r = [Req EXCEPT !.admission = "started"]
      BY <2>1
    <3> HIDE DEF r
    <3> QED BY <1>1, <1>3, <2>1, <3>1 DEF CallType, Pending, Checked, Honest
  <2>2. CASE ~Req.shape.arm.admits
    <3>1. r = Req
      BY <2>2
    <3> HIDE DEF r
    <3> QED BY <1>1, <2>2, <3>1
  <2> QED BY <2>1, <2>2
<1>4. ASSUME Req.shape.arm.admits => Req.admission = "queued",
             NEW a, call' = [call EXCEPT ![Current] = Consumed(ToldBy(r, a))], Return
      PROVE  ChannelInv'
  <2> HIDE DEF r
  <2> QED BY <1>1, <1>3, <1>4, HarmlessHonest, ReturnKeeps DEF Pending
<1>5. ASSUME Req.shape.arm.admits => Req.admission = "queued", ~Stale,
             call' = [call EXCEPT ![Current] = r], loop' = [loop EXCEPT !.phase = "running"]
      PROVE  ChannelInv'
  <2>1. call \in [Calls -> CallType] /\ loop.call = Current
    BY DEF ChannelInv, ChannelType, Current
  <2> HIDE DEF r
  <2>2. \A c \in Calls : call'[c] = IF c = Current THEN r ELSE call[c]
    BY <1>5, <2>1
  <2>3. loop' = [phase |-> "running", call |-> loop.call]
    BY <1>5 DEF ChannelInv, ChannelType
  <2>4. ChannelType' /\ OnceInv'
    BY <1>1, <1>3, <1>5, <2>1, <2>2, <2>3 DEF ChannelInv, ChannelType, OnceInv
  <2>5. \A c \in Calls : InFlight(c)' <=> InFlight(c)
    BY <1>1, <2>3 DEF InFlight
  <2>6. RequestInv'
    <3>1. r.state # "sending"
      BY <1>3, <1>5 DEF Pending
    <3> QED BY <1>3, <1>5, <2>2, <2>5, <3>1 DEF ChannelInv, RequestInv
  <2>7. Req' = r
    BY <1>1, <2>1, <2>2, <2>3 DEF Req, Current
  <2>8. ServedInv'
    BY <1>1, <1>3, <1>5, <2>7 DEF ServedInv, Stale
  <2> QED BY <2>4, <2>6, <2>8 DEF ChannelInv
<1> DEFINE a == IF r.shape.arm.token /\ r.cancelled THEN "cancelled"
                ELSE IF Stale THEN "replaced" ELSE "go"
<1>6. \/ Reply("expired") /\ Return
      \/ /\ Req.shape.arm.admits => Req.admission = "queued"
         /\ call' = [call EXCEPT ![Current] = IF a = "go" THEN r ELSE Consumed(ToldBy(r, a))]
         /\ IF a = "go" THEN loop' = [loop EXCEPT !.phase = "running"] ELSE Return
  BY DEF Dispatch
<1>7. a = "go" => ~Stale
  OBVIOUS
<1> HIDE DEF a, r
<1> QED BY <1>2, <1>4, <1>5, <1>6, <1>7

\* Every answer of a handler.
LEMMA HandlerKeeps ==
  ASSUME IInv, loop.phase = "running", NEW r \in {Req, Touched(Req)}, NEW a,
         Verdict(a) = "served", call' = [call EXCEPT ![Current] = Consumed(ToldBy(r, a))],
         Return, UNCHANGED queue
  PROVE  ChannelInv'
<1>1. Req \in CallType /\ Pending(Req)
  BY TakenFacts DEF IInv
<1>2. CASE r = Req
  BY <1>1, <1>2, ReplyKeeps DEF IInv, Reply
<1>3. CASE Mutates(Req.shape) /\ r = [Req EXCEPT !.ran = ida.generation]
  <2>1. /\ r \in CallType /\ r.state # "sending" /\ r.admission # "cancelled"
        /\ r.answer # "refused"
        /\ r.expects # 0 => r.ran = r.expects
    BY <1>1, <1>3, RunningIsTrusted DEF IInv, DatabaseInv, IdaType, CallType, Pending
  <2>2. /\ Consumed(ToldBy(r, a)) \in CallType /\ Honest(Consumed(ToldBy(r, a)))
        /\ Consumed(ToldBy(r, a)).state # "sending"
    BY <2>1, ServedHonest
  <2> QED BY <2>2, ReturnKeeps DEF IInv
<1> QED BY <1>2, <1>3 DEF Touched

LEMMA HandleKeeps == ASSUME IInv, Handle \/ Crash PROVE ChannelInv'
<1>1. loop.phase = "running" /\ Return /\ UNCHANGED queue
  BY DEF Handle, Crash
<1>2. \A a \in {"ok", "error", "cancelled", "crash"} : Verdict(a) = "served"
  BY DEF Verdict, Refusals
<1>3. CASE Handle
  <2>1. \/ Reply("error")
        \/ \E r \in {Req, Touched(Req)} : \E a \in {"ok", "error", "cancelled"} :
             call' = [call EXCEPT ![Current] = Consumed(ToldBy(r, a))]
    BY <1>3 DEF Handle
  <2> QED BY <1>1, <1>2, <2>1, ReplyKeeps, HandlerKeeps DEF IInv
<1>4. CASE Crash
  BY <1>1, <1>2, <1>4, HandlerKeeps DEF Crash
<1> QED BY <1>3, <1>4

LEMMA OpenKeeps ==
  ASSUME ChannelInv, OpenAgain \/ OpenFresh \/ OpenExhausted PROVE ChannelInv'
<1>1. loop.phase = "running" /\ Return /\ UNCHANGED queue /\ \E a : Reply(a)
  BY DEF OpenAgain, OpenFresh, OpenExhausted
<1> QED BY <1>1, ReplyKeeps

LEMMA DieKeeps == ASSUME ChannelInv, Die PROVE ChannelInv'
<1>1. /\ loop' = [phase |-> "killed", call |-> NoCall] /\ queue' = <<>>
      /\ call' = [c \in Calls |-> [Consumed(call[c]) EXCEPT !.state = "done"]]
  BY DEF Die
<1>2. ASSUME NEW c \in Calls
      PROVE  call'[c] \in CallType /\ Honest(call'[c]) /\ call'[c].state = "done"
  <2> DEFINE r == Consumed(call[c])
  <2>1. call[c] \in CallType /\ Honest(call[c])
    BY DEF ChannelInv, ChannelType, RequestInv
  <2>2. r \in CallType /\ Honest(r)
    BY <2>1, ConsumedFields DEF Honest
  <2> HIDE DEF r
  <2>3. call'[c] = [r EXCEPT !.state = "done"]
    BY <1>1 DEF r
  <2> QED BY <2>2, <2>3 DEF CallType, States, Honest
<1>3. ChannelType' /\ OnceInv'
  BY <1>1, <1>2, CallsAssumption, BoundsAssumption DEF ChannelType, OnceInv
<1>4. RequestInv'
  BY <1>1, <1>2, CallsAssumption DEF RequestInv, InFlight
<1> QED BY <1>1, <1>3, <1>4 DEF ChannelInv, ServedInv

LEMMA DebuggeeExitsKeeps == ASSUME IInv, DebuggeeExits PROVE ChannelInv'
<1>1. UNCHANGED <<call, queue, loop>> /\ ida'.generation = ida.generation
  BY DEF DebuggeeExits, IInv, DatabaseInv, IdaType
<1> QED
  BY <1>1 DEF IInv, ChannelInv, ChannelType, OnceInv, RequestInv, InFlight, ServedInv, Req, Current

LEMMA ChannelStep == IInv /\ [Next]_vars => ChannelInv'
<1> SUFFICES ASSUME IInv, [Next]_vars PROVE ChannelInv'
  OBVIOUS
<1>1. CASE UNCHANGED vars
  BY <1>1 DEF vars, IInv, ChannelInv, ChannelType, OnceInv, RequestInv, InFlight, ServedInv, Req,
              Current
<1>2. ASSUME NEW c \in Calls, CallerStep(c) PROVE ChannelInv'
  BY <1>2, SubmitKeeps, SendingKeeps, DeadlineKeeps, AbandonKeeps, CancelTokenKeeps
     DEF IInv, CallerStep
<1>3. CASE DebuggeeExits
  BY <1>3, DebuggeeExitsKeeps
<1>4. CASE Receive \/ Initialise
  BY <1>4, ReceiveKeeps, InitialiseKeeps DEF IInv
<1>5. CASE InitialiseFails \/ RejectVersion \/ CloseSkipped
  BY <1>5, ReplyKeeps DEF IInv, InitialiseFails, RejectVersion, CloseSkipped
<1>6. CASE Shutdown
  BY <1>6, ExitKeeps DEF IInv, Shutdown
<1>7. CASE Close \/ Dispatch
  BY <1>7, CloseKeeps, DispatchKeeps DEF IInv
<1>8. CASE OpenAgain \/ OpenFresh \/ OpenExhausted \/ Handle \/ Crash \/ Die
  BY <1>8, OpenKeeps, HandleKeeps, DieKeeps DEF IInv
<1> QED BY <1>1, <1>2, <1>3, <1>4, <1>5, <1>6, <1>7, <1>8 DEF Next, LoopStep

-----------------------------------------------------------------------------
(* Every step keeps the database, its lock and its debuggee together.      *)

\* A drop that writes nothing corrupt leaves no trace of the database.
LEMMA DroppedFields ==
  ASSUME NEW s \in IdaType, NEW save \in BOOLEAN, s.disk = "sound",
         save => s.database # "corrupt"
  PROVE  /\ Dropped(s, save) \in IdaType
         /\ Dropped(s, save).database = "none" /\ Dropped(s, save).generation = 0
         /\ Dropped(s, save).lock = FALSE /\ Dropped(s, save).disk = "sound"
         /\ Dropped(s, save).crashed = s.crashed /\ Dropped(s, save).stray = s.stray
         /\ Dropped(s, save).debuggee = s.debuggee /\ Dropped(s, save).session = s.session
<1> DEFINE d == IF save /\ s.database # "none" THEN s.database ELSE s.disk
<1>1. Dropped(s, save) = [s EXCEPT !.database = "none", !.generation = 0, !.lock = FALSE,
                                   !.disk = d]
  BY DEF Dropped
<1>2. d = "sound"
  BY DEF IdaType
<1> HIDE DEF d
<1>3. Dropped(s, save) = [s EXCEPT !.database = "none", !.generation = 0, !.lock = FALSE,
                                   !.disk = "sound"]
  BY <1>1, <1>2
<1>4. 0 \in 0 .. MaxGeneration
  BY BoundsAssumption
<1>5. Dropped(s, save) \in IdaType
  BY <1>3, <1>4 DEF IdaType
<1>6. /\ Dropped(s, save).database = "none" /\ Dropped(s, save).generation = 0
      /\ Dropped(s, save).lock = FALSE /\ Dropped(s, save).disk = "sound"
  BY <1>3 DEF IdaType
<1>7. /\ Dropped(s, save).crashed = s.crashed /\ Dropped(s, save).stray = s.stray
      /\ Dropped(s, save).debuggee = s.debuggee /\ Dropped(s, save).session = s.session
  BY <1>3 DEF IdaType
<1> QED BY <1>5, <1>6, <1>7

\* Closing the session takes its debuggee along.
LEMMA SessionFields ==
  ASSUME NEW s \in IdaType
  PROVE  LET z == SessionClosed(s) IN
         /\ z \in IdaType /\ z.database = s.database /\ z.disk = s.disk
         /\ z.generation = s.generation /\ z.lock = s.lock
         /\ z.crashed = s.crashed /\ z.stray = s.stray
         /\ z.debuggee => s.debuggee /\ (s.database = "none" \/ ~s.session)
BY DEF SessionClosed, IdaType

LEMMA DatabaseInit == Init => DatabaseInv
<1> SUFFICES ASSUME Init PROVE DatabaseInv
  OBVIOUS
<1>1. /\ ida \in IdaType /\ ida.database = "none" /\ ida.generation = 0 /\ ida.lock = FALSE
      /\ ida.disk = "sound" /\ ida.crashed = FALSE /\ ida.debuggee = FALSE
  <2>1. Fresh \in IdaType
    BY BoundsAssumption DEF Fresh, IdaType
  <2>2. ida \in {Fresh, [Fresh EXCEPT !.lib = "ready"], [Fresh EXCEPT !.lib = "mismatch"]}
    BY DEF Init
  <2>3. /\ Fresh.database = "none" /\ Fresh.generation = 0 /\ Fresh.lock = FALSE
        /\ Fresh.disk = "sound" /\ Fresh.crashed = FALSE /\ Fresh.debuggee = FALSE
    BY DEF Fresh
  <2>4. \A o \in {"ready", "mismatch"} :
          LET i == [Fresh EXCEPT !.lib = o] IN
            /\ i \in IdaType /\ i.database = "none" /\ i.generation = 0 /\ i.lock = FALSE
            /\ i.disk = "sound" /\ i.crashed = FALSE /\ i.debuggee = FALSE
    BY <2>1, <2>3 DEF IdaType
  <2> QED BY <2>1, <2>2, <2>3, <2>4
<1> QED BY <1>1 DEF DatabaseInv, LockFollowsDatabase, NeverSavesCorrupt, CrashInv, DebuggeeOwned

\* A step that leaves the database alone only has to keep the loop away from
\* what a crash left behind.
LEMMA DatabaseKept ==
  ASSUME DatabaseInv, UNCHANGED ida, Running' => Running,
         ida.crashed => loop'.phase \notin {"taken", "running"}
  PROVE  DatabaseInv'
BY DEF DatabaseInv, LockFollowsDatabase, NeverSavesCorrupt, CrashInv, DebuggeeOwned

\* While the loop serves a request, no crash is pending.
LEMMA ServingIsSound ==
  ASSUME DatabaseInv, loop.phase \in {"taken", "running"}
  PROVE  /\ ida.database # "corrupt" /\ ~ida.crashed /\ ida.disk = "sound" /\ ida \in IdaType
         /\ ida.lock <=> ida.database # "none"
         /\ ida.generation # 0 <=> ida.database # "none"
         /\ ida.debuggee /\ ~ida.stray => ida.session /\ ida.database # "none"
BY DEF DatabaseInv, LockFollowsDatabase, NeverSavesCorrupt, CrashInv, DebuggeeOwned, Running

LEMMA ReceiveDatabase == ASSUME DatabaseInv, Receive PROVE DatabaseInv'
<1>1. loop'.phase = "taken"
  BY DEF Receive
<1>2. CASE ~ida.crashed
  BY <1>1, <1>2, DatabaseKept DEF Receive, Running
<1>3. CASE ida.crashed
  <2>1. PICK s \in {ida, SessionClosed(ida)} : ida' = [Dropped(s, FALSE) EXCEPT !.crashed = FALSE]
    BY <1>3 DEF Receive, Discarded
  <2>2. s \in IdaType /\ s.disk = "sound" /\ s.stray
    BY <1>3, SessionFields DEF DatabaseInv, NeverSavesCorrupt, CrashInv
  <2>3. /\ ida' \in IdaType /\ ida'.database = "none" /\ ida'.generation = 0
        /\ ida'.lock = FALSE /\ ida'.disk = "sound" /\ ida'.crashed = FALSE /\ ida'.stray
    <3> DEFINE d == Dropped(s, FALSE)
    <3>1. /\ d \in IdaType /\ d.database = "none" /\ d.generation = 0 /\ d.lock = FALSE
          /\ d.disk = "sound" /\ d.stray
      BY <2>2, DroppedFields
    <3> HIDE DEF d
    <3>2. ida' = [d EXCEPT !.crashed = FALSE]
      BY <2>1 DEF d
    <3> QED BY <3>1, <3>2 DEF IdaType
  <2> QED
    BY <1>1, <2>3 DEF DatabaseInv, LockFollowsDatabase, NeverSavesCorrupt, CrashInv, DebuggeeOwned
<1> QED BY <1>2, <1>3

LEMMA InitialiseDatabase == ASSUME DatabaseInv, Initialise PROVE DatabaseInv'
<1>1. PICK o \in {"ready", "mismatch"} : ida' = [ida EXCEPT !.lib = o]
  BY DEF Initialise
<1>2. /\ ida' \in IdaType /\ ida'.database = ida.database /\ ida'.generation = ida.generation
      /\ ida'.lock = ida.lock /\ ida'.disk = ida.disk /\ ida'.crashed = ida.crashed
      /\ ida'.stray = ida.stray /\ ida'.debuggee = ida.debuggee /\ ida'.session = ida.session
  BY <1>1 DEF DatabaseInv, IdaType
<1> QED
  BY <1>2 DEF Initialise, DatabaseInv, LockFollowsDatabase, NeverSavesCorrupt, CrashInv,
              DebuggeeOwned, Running

LEMMA ShutdownDatabase == ASSUME DatabaseInv, Shutdown PROVE DatabaseInv'
<1>1. loop.phase = "taken" /\ loop'.phase = "exited"
  BY DEF Shutdown, Exit
<1>2. PICK s \in {ida, SessionClosed(ida)} : ida' = Dropped(s, TRUE)
  BY DEF Shutdown, ShutdownCleanup
<1>3. s \in IdaType /\ s.disk = "sound" /\ s.database # "corrupt" /\ ~s.crashed
  BY <1>1, ServingIsSound, SessionFields
<1>4. /\ ida' \in IdaType /\ ida'.database = "none" /\ ida'.generation = 0
      /\ ida'.lock = FALSE /\ ida'.disk = "sound" /\ ~ida'.crashed
  BY <1>2, <1>3, DroppedFields
<1> QED
  BY <1>1, <1>4 DEF DatabaseInv, LockFollowsDatabase, NeverSavesCorrupt, CrashInv, DebuggeeOwned,
                    Running

LEMMA CloseDatabase == ASSUME DatabaseInv, Close PROVE DatabaseInv'
<1>1. loop.phase = "taken" /\ loop'.phase = "idle"
  BY DEF Close, Return
<1>2. CASE UNCHANGED ida
  BY <1>1, <1>2, DatabaseKept DEF Running
<1>3. CASE ida' = Dropped(SessionClosed(ida), TRUE)
  <2> DEFINE s == SessionClosed(ida)
  <2>1. /\ s \in IdaType /\ s.disk = "sound" /\ s.database # "corrupt" /\ ~s.crashed
        /\ s.debuggee => s.stray
    BY <1>1, ServingIsSound, SessionFields
  <2>2. /\ ida' \in IdaType /\ ida'.database = "none" /\ ida'.generation = 0
        /\ ida'.lock = FALSE /\ ida'.disk = "sound" /\ ~ida'.crashed
        /\ ida'.debuggee => ida'.stray
    BY <1>3, <2>1, DroppedFields
  <2> QED
    BY <2>2 DEF DatabaseInv, LockFollowsDatabase, NeverSavesCorrupt, CrashInv, DebuggeeOwned
<1> QED BY <1>2, <1>3 DEF Close

LEMMA OpenDatabase ==
  ASSUME DatabaseInv, OpenAgain \/ OpenFresh \/ OpenExhausted PROVE DatabaseInv'
<1>1. loop.phase = "running" /\ loop'.phase = "idle"
  <2>1. loop.phase = "running" /\ Return
    BY DEF OpenAgain, OpenFresh, OpenExhausted
  <2> QED BY <2>1 DEF Return
<1>2. CASE UNCHANGED ida
  BY <1>1, <1>2, DatabaseKept DEF Running
<1>3. CASE /\ ida.database = "none" /\ ida.last < MaxGeneration
           /\ ida' = [ida EXCEPT !.database = "sound", !.last = ida.last + 1,
                                 !.generation = ida.last + 1, !.lock = TRUE]
  <2>1. /\ ida \in IdaType /\ ida.disk = "sound" /\ ~ida.crashed
        /\ ida.debuggee => ida.stray
    BY <1>1, <1>3, ServingIsSound
  <2>2. ida.last + 1 \in 0 .. MaxGeneration /\ ida.last + 1 # 0
    BY <1>3, <2>1, BoundsAssumption DEF IdaType
  <2> DEFINE n == ida.last + 1
  <2> HIDE DEF n
  <2>3. /\ ida' \in IdaType /\ ida'.database = "sound" /\ ida'.generation = n
        /\ ida'.lock = TRUE /\ ida'.disk = "sound" /\ ~ida'.crashed
        /\ ida'.debuggee => ida'.stray
    BY <1>3, <2>1, <2>2 DEF IdaType, n
  <2> QED
    BY <2>2, <2>3 DEF n, DatabaseInv, LockFollowsDatabase, NeverSavesCorrupt, CrashInv,
                      DebuggeeOwned
<1>4. CASE ida.database = "none" /\ ida' = Dropped([ida EXCEPT !.database = "sound"], TRUE)
  <2> DEFINE s == [ida EXCEPT !.database = "sound"]
  <2>1. /\ s \in IdaType /\ s.disk = "sound" /\ s.database # "corrupt" /\ ~s.crashed
        /\ s.debuggee => s.stray
    BY <1>1, <1>4, ServingIsSound DEF IdaType
  <2> HIDE DEF s
  <2>2. /\ ida' \in IdaType /\ ida'.database = "none" /\ ida'.generation = 0
        /\ ida'.lock = FALSE /\ ida'.disk = "sound" /\ ~ida'.crashed
        /\ ida'.debuggee => ida'.stray
    BY <1>4, <2>1, DroppedFields DEF s
  <2> QED
    BY <2>2 DEF DatabaseInv, LockFollowsDatabase, NeverSavesCorrupt, CrashInv, DebuggeeOwned
<1> QED BY <1>2, <1>3, <1>4 DEF OpenAgain, OpenFresh, OpenExhausted

LEMMA HandleDatabase == ASSUME DatabaseInv, Handle PROVE DatabaseInv'
<1>1. loop.phase = "running" /\ loop'.phase = "idle"
  BY DEF Handle, Return
<1>2. CASE UNCHANGED ida
  BY <1>1, <1>2, DatabaseKept DEF Running
<1>3. CASE ida.database # "none" /\ ida' \in HandlerLeaves(ida, Req.shape.effect)
  <2>1. /\ ida \in IdaType /\ ida.database = "sound" /\ ida.disk = "sound" /\ ~ida.crashed
        /\ ida.lock /\ ida.generation # 0
        /\ ida.debuggee /\ ~ida.stray => ida.session
    BY <1>1, <1>3, ServingIsSound DEF IdaType
  <2>2. \/ ida' \in ScriptLeaves(ida)
        \/ ida' = ida
        \/ ida' = [ida EXCEPT !.disk = ida.database]
        \/ ida' = [ida EXCEPT !.session = TRUE, !.debuggee = TRUE]
        \/ ida' = [ida EXCEPT !.session = FALSE, !.debuggee = FALSE]
    BY <1>3 DEF HandlerLeaves
  <2>3. /\ ida' \in IdaType /\ ida'.database = "sound" /\ ida'.generation = ida.generation
        /\ ida'.lock /\ ida'.disk = "sound" /\ ~ida'.crashed
        /\ ida'.debuggee /\ ~ida'.stray => ida'.session
    <3>1. CASE ida' \in ScriptLeaves(ida)
      <4>1. PICK k \in {ida.disk, ida.database}, d \in BOOLEAN :
              ida' = Scripted(ida, k, d)
        BY <3>1 DEF ScriptLeaves
      <4>2. k = "sound" /\ ida \in IdaType
        BY <2>1
      <4> DEFINE e == ida.stray \/ (d /\ ~ida.session)
      <4>3. e \in BOOLEAN /\ (d /\ ~e => ida.session)
        BY <4>2 DEF IdaType
      <4> HIDE DEF e
      <4>4. ida' = [ida EXCEPT !.disk = k, !.debuggee = d, !.stray = e]
        BY <4>1 DEF e, Scripted
      <4>5. /\ ida' \in IdaType /\ ida'.database = ida.database /\ ida'.lock = ida.lock
            /\ ida'.generation = ida.generation /\ ida'.crashed = ida.crashed
            /\ ida'.session = ida.session /\ ida'.disk = k
        BY <4>2, <4>3, <4>4 DEF IdaType
      <4>6. ida'.debuggee = d /\ ida'.stray = e
        BY <4>2, <4>4 DEF IdaType
      <4> QED BY <2>1, <4>2, <4>3, <4>5, <4>6
    <3>2. CASE ida' \notin ScriptLeaves(ida)
      BY <2>1, <2>2, <3>2 DEF IdaType
    <3> QED BY <3>1, <3>2
  <2> QED
    BY <2>1, <2>3 DEF DatabaseInv, LockFollowsDatabase, NeverSavesCorrupt, CrashInv, DebuggeeOwned
<1> QED BY <1>2, <1>3 DEF Handle

LEMMA CrashDatabase == ASSUME DatabaseInv, Crash PROVE DatabaseInv'
<1>1. loop.phase = "running" /\ loop'.phase = "idle" /\ ida.database # "none"
  BY DEF Crash, Return
<1>2. PICK d \in {ida.debuggee, ida.debuggee \/ Req.shape.effect \in {"debugStart", "script"}} :
        ida' = [ida EXCEPT !.database = "corrupt", !.crashed = TRUE, !.stray = TRUE,
                           !.debuggee = d]
  BY DEF Crash
<1>3. ida \in IdaType /\ ida.lock /\ ida.generation # 0 /\ ida.disk = "sound"
  BY <1>1, ServingIsSound
<1>4. d \in BOOLEAN
  BY <1>2, <1>3 DEF IdaType
<1>5. /\ ida' \in IdaType /\ ida'.database = "corrupt" /\ ida'.generation = ida.generation
      /\ ida'.lock /\ ida'.disk = "sound" /\ ida'.crashed /\ ida'.stray
  BY <1>2, <1>3, <1>4 DEF IdaType
<1> QED
  BY <1>1, <1>3, <1>5 DEF DatabaseInv, LockFollowsDatabase, NeverSavesCorrupt, CrashInv,
                          DebuggeeOwned

LEMMA DebuggeeExitsDatabase == ASSUME DatabaseInv, DebuggeeExits PROVE DatabaseInv'
<1>1. ida' = [ida EXCEPT !.debuggee = FALSE] /\ UNCHANGED loop /\ ida \in IdaType
  BY DEF DatabaseInv, DebuggeeExits
<1>2. /\ ida' \in IdaType /\ ida'.database = ida.database /\ ida'.generation = ida.generation
      /\ ida'.lock = ida.lock /\ ida'.disk = ida.disk /\ ida'.crashed = ida.crashed
      /\ ida'.stray = ida.stray /\ ~ida'.debuggee
  BY <1>1 DEF IdaType
<1> QED
  BY <1>1, <1>2 DEF DatabaseInv, LockFollowsDatabase, NeverSavesCorrupt, CrashInv, DebuggeeOwned

LEMMA DatabaseStep == IInv /\ [Next]_vars => DatabaseInv'
<1> SUFFICES ASSUME DatabaseInv, [Next]_vars PROVE DatabaseInv'
  BY DEF IInv
<1>1. CASE UNCHANGED vars
  BY <1>1, DatabaseKept DEF vars, DatabaseInv, CrashInv, Running
<1>2. ASSUME NEW c \in Calls, CallerStep(c) PROVE DatabaseInv'
  <2>1. UNCHANGED <<loop, ida>>
    BY <1>2 DEF CallerStep, Submit, Resend, GiveUp, ReadDeadline, SideEffectDeadline, Abandon,
                CancelToken
  <2> QED BY <2>1, DatabaseKept DEF DatabaseInv, CrashInv, Running
<1>3. CASE DebuggeeExits
  BY <1>3, DebuggeeExitsDatabase
<1>4. CASE Receive \/ Initialise \/ Shutdown \/ Close
  BY <1>4, ReceiveDatabase, InitialiseDatabase, ShutdownDatabase, CloseDatabase
<1>5. CASE InitialiseFails \/ RejectVersion \/ CloseSkipped
  BY <1>5, DatabaseKept DEF InitialiseFails, RejectVersion, CloseSkipped, Return, Running
<1>6. CASE Dispatch
  <2>1. UNCHANGED ida /\ loop.phase = "taken"
    BY <1>6 DEF Dispatch
  <2> QED BY <2>1, ServingIsSound, DatabaseKept DEF Running
<1>7. CASE OpenAgain \/ OpenFresh \/ OpenExhausted \/ Handle \/ Crash
  BY <1>7, OpenDatabase, HandleDatabase, CrashDatabase
<1>8. CASE Die
  BY <1>8, DatabaseKept DEF Die, Running
<1> QED BY <1>1, <1>2, <1>3, <1>4, <1>5, <1>6, <1>7, <1>8 DEF Next, LoopStep

-----------------------------------------------------------------------------
(* The theorems.                                                           *)

\* IInv is inductive.
LEMMA Invariance == Spec => []IInv
<1>1. Init => IInv
  BY ChannelInit, DatabaseInit DEF IInv
<1>2. IInv /\ [Next]_vars => IInv'
  BY ChannelStep, DatabaseStep DEF IInv
<1> QED BY <1>1, <1>2, PTL DEF Spec

\* Every variable keeps its type, and the channel never holds more requests
\* than its capacity (REQUEST_QUEUE_CAPACITY).
THEOREM TypeCorrect == Spec => []TypeOK
<1>1. IInv => TypeOK
  BY DEF IInv, ChannelInv, ChannelType, DatabaseInv, TypeOK
<1> QED BY <1>1, Invariance, PTL

\* A caller that was told its request was refused, or that withdrew it, can
\* rely on it: whatever the callers and the loop do, in whatever order, the
\* request changes nothing (recv_side_effect, SideEffectWaitGuard and
\* admit_or_reject).
THEOREM RefusedRequestsNeverRun == Spec => []RefusedNeverRuns
<1>1. IInv => RefusedNeverRuns
  BY DEF IInv, ChannelInv, RequestInv, Honest, RefusedNeverRuns
<1> QED BY <1>1, Invariance, PTL

\* A request bound to one database lifetime changes no other, however long it
\* waited in the channel (require_generation, CloseIfGeneration).
THEOREM BoundRequestsStayBound == Spec => []GenerationBound
<1>1. IInv => GenerationBound
  BY DEF IInv, ChannelInv, RequestInv, Honest, GenerationBound
<1> QED BY <1>1, Invariance, PTL

\* No sequence of requests, crashes and shutdowns writes a database the SDK
\* crashed in (discard_database_after_crash).
THEOREM CorruptIsNeverSaved == Spec => []NeverSavesCorrupt
<1>1. IInv => NeverSavesCorrupt
  BY DEF IInv, DatabaseInv
<1> QED BY <1>1, Invariance, PTL

\* The lock file and the current generation live exactly as long as the open
\* database (Open, Close, CloseIfGeneration, shutdown_cleanup and the discard
\* after a crash).
THEOREM LockLivesWithDatabase == Spec => []LockFollowsDatabase
<1>1. IInv => LockFollowsDatabase
  BY DEF IInv, DatabaseInv
<1> QED BY <1>1, Invariance, PTL

\* Unless a crash or a script interfered, a process under the debugger is on
\* record with an open database behind it (DebuggerRuntime).
THEOREM DebuggeeIsOwned == Spec => []DebuggeeOwned
<1>1. IInv => DebuggeeOwned
  BY DEF IInv, DatabaseInv
<1> QED BY <1>1, Invariance, PTL
=============================================================================
