---------------------------- MODULE ProductProofs ----------------------------
(***************************************************************************)
(* Theorems about Product for any files, intents, patches and edits: a     *)
(* client that says READY has finished a round that ran what its program   *)
(* requires, and a patch tried out leaves the text as it was.              *)
(***************************************************************************)
EXTENDS Product, TLAPS

-----------------------------------------------------------------------------
(* The inductive invariant.                                                *)

\* What a verification round may still have to run.
Rounds ==
    {<<>>, <<"hypothesis">>, <<"ruff">>, <<"ruff", "hypothesis">>,
     <<"pytest", "ruff">>, <<"pytest", "ruff", "hypothesis">>}

Engine(steps) == {steps[i] : i \in 1..Len(steps)}

\* The client is a record of its own fields.
Fields ==
    DOMAIN client = {"pc", "program", "mutations", "todo", "receipts", "closure", "verdict"}

\* In a round, each required engine has run or is going to, and no verdict stands yet.
Underway ==
    client.pc = "verifying" =>
        /\ client.verdict # "READY" /\ client.todo \in Rounds
        /\ Required(client.program) \subseteq {r.engine : r \in client.receipts} \cup Engine(client.todo)

Covered(closure) == closure.verdict = "SATISFIED" => Required(closure.program) \subseteq closure.passed

Closed ==
    /\ client.closure # None => Covered(client.closure)
    /\ client.verdict = "READY" => client.closure # None /\ client.closure.verdict = "SATISFIED"

IInv == Fields /\ Underway /\ Closed

-----------------------------------------------------------------------------
(* Lemmas.                                                                 *)

\* A plan has a step for each engine its contract requires.
LEMMA StepsCover ==
    ASSUME NEW program
    PROVE  Steps(program) \in Rounds /\ Required(program) \subseteq Engine(Steps(program))
<1>1. CASE program.properties
    <2>1. Steps(program) = <<"pytest", "ruff", "hypothesis">>
        BY <1>1 DEF Steps
    <2>. QED
        BY <1>1, <2>1 DEF Required, Rounds, Engine
<1>2. CASE ~program.properties
    <2>1. Steps(program) = <<"pytest", "ruff">>
        BY <1>2 DEF Steps
    <2>. QED
        BY <1>2, <2>1 DEF Required, Rounds, Engine
<1>. QED
    BY <1>1, <1>2

\* The engines of a round are its next one and those of the rest.
LEMMA StepTaken ==
    ASSUME NEW s \in Rounds, s # <<>>
    PROVE  Tail(s) \in Rounds /\ Engine(s) \subseteq {Head(s)} \cup Engine(Tail(s))
<1>1. CASE s = <<"hypothesis">>
    BY <1>1 DEF Rounds, Engine
<1>2. CASE s = <<"ruff">>
    BY <1>2 DEF Rounds, Engine
<1>3. CASE s = <<"ruff", "hypothesis">>
    BY <1>3 DEF Rounds, Engine
<1>4. CASE s = <<"pytest", "ruff">>
    BY <1>4 DEF Rounds, Engine
<1>5. CASE s = <<"pytest", "ruff", "hypothesis">>
    BY <1>5 DEF Rounds, Engine
<1>. QED
    BY <1>1, <1>2, <1>3, <1>4, <1>5 DEF Rounds

\* At the end of a round that is SATISFIED every required engine passed.
LEMMA ClosureCovers ==
    ASSUME NEW program, NEW receipts, Required(program) \subseteq {r.engine : r \in receipts},
           create_evidence_closure(receipts) = "SATISFIED"
    PROVE  Required(program) \subseteq {r.engine : r \in {s \in receipts : s.pass}}
<1>1. \A r \in receipts : r.pass
    BY DEF create_evidence_closure
<1>2. {s \in receipts : s.pass} = receipts
    BY <1>1
<1>. QED
    BY <1>2

\* The beginning.
LEMMA InitInv == Init => IInv
BY PathsAssumption DEF Init, Fresh, IInv, Fields, Underway, Closed

\* A client outside a round, with its closure and no more than its verdict.
LEMMA Resting ==
    ASSUME IInv, Fields', client'.pc # "verifying", client'.closure = client.closure,
           client'.verdict \in {client.verdict, None}
    PROVE  IInv'
BY PathsAssumption DEF IInv, Underway, Closed, Covered

\* The steps of a verification round and its verdict.
LEMMA RoundInv ==
    ASSUME IInv, verify_obligations \/ verify_step \/ CloseRound \/ evaluate_and_release
    PROVE  IInv'
<1>1. ASSUME verify_obligations PROVE IInv'
    <2>1. /\ Fields' /\ client'.pc = "verifying" /\ client'.program = client.program
          /\ client'.todo = Steps(client.program) /\ client'.closure = client.closure /\ client'.verdict = None
        BY <1>1 DEF verify_obligations, Client, IInv, Fields
    <2>2. Underway'
        BY <2>1, StepsCover, PathsAssumption DEF Underway, Required
    <2>. QED
        BY <2>1, <2>2, PathsAssumption DEF IInv, Closed, Covered, Required
<1>2. ASSUME verify_step PROVE IInv'
    <2>1. CASE ~sanitize_targets(client.program.targets)
        BY <1>2, <2>1, Resting DEF verify_step, Client, Idle, IInv, Fields
    <2>2. CASE sanitize_targets(client.program.targets)
        <3>1. PICK ok : client' = [client EXCEPT !.todo = Tail(@),
                                        !.receipts = @ \cup {[engine |-> Head(client.todo), pass |-> ok]}]
            BY <1>2, <2>2 DEF verify_step, Client
        <3>2. /\ Fields' /\ client'.pc = client.pc /\ client'.program = client.program
              /\ client'.todo = Tail(client.todo) /\ client'.closure = client.closure
              /\ client'.verdict = client.verdict
              /\ client'.receipts = client.receipts \cup {[engine |-> Head(client.todo), pass |-> ok]}
            BY <3>1 DEF IInv, Fields
        <3>3. client.todo \in Rounds /\ client.todo # <<>> /\ client.verdict # "READY"
              /\ Required(client.program) \subseteq {r.engine : r \in client.receipts} \cup Engine(client.todo)
            BY <1>2 DEF verify_step, IInv, Underway
        <3>4. {r.engine : r \in client'.receipts} = {r.engine : r \in client.receipts} \cup {Head(client.todo)}
            <4>. DEFINE receipt == [engine |-> Head(client.todo), pass |-> ok]
            <4>1. receipt.engine = Head(client.todo) /\ client'.receipts = client.receipts \cup {receipt}
                BY <3>2
            <4>. HIDE DEF receipt
            <4>. QED
                BY <4>1
        <3>5. Underway'
            BY <3>2, <3>3, <3>4, StepTaken DEF Underway, Required
        <3>. QED
            BY <3>2, <3>5 DEF IInv, Closed, Covered, Required
    <2>. QED
        BY <2>1, <2>2
<1>3. ASSUME CloseRound PROVE IInv'
    <2>1. /\ Fields' /\ client'.pc = "idle" /\ client'.verdict = client.verdict
          /\ client'.closure = [program |-> client.program, verdict |-> create_evidence_closure(client.receipts),
                                passed |-> {r.engine : r \in {s \in client.receipts : s.pass}}]
        BY <1>3 DEF CloseRound, Client, Idle, IInv, Fields
    <2>2. /\ client.verdict # "READY"
          /\ Required(client.program) \subseteq {r.engine : r \in client.receipts}
        BY <1>3 DEF CloseRound, IInv, Underway, Engine
    <2>3. Covered(client'.closure)
        BY <2>1, <2>2, ClosureCovers DEF Covered
    <2>4. Closed'
        BY <2>1, <2>2, <2>3 DEF Closed, Covered, Required
    <2>. QED
        BY <2>1, <2>4 DEF IInv, Underway
<1>4. ASSUME evaluate_and_release PROVE IInv'
    <2>1. /\ Fields' /\ client'.pc = "idle" /\ client'.closure = client.closure
          /\ client'.verdict = "READY" => client.closure # None /\ client.closure.verdict = "SATISFIED"
        BY <1>4 DEF evaluate_and_release, Client, IInv, Fields
    <2>. QED
        BY <2>1 DEF IInv, Underway, Closed, Covered
<1>. QED
    BY <1>1, <1>2, <1>3, <1>4

\* Every step keeps the invariant.
LEMMA NextInv == IInv /\ [Next]_vars => IInv'
<1> SUFFICES ASSUME IInv, [Next]_vars PROVE IInv'
    OBVIOUS
<1>1. ASSUME NEW i, compile_and_submit_intent(i) PROVE IInv'
    BY <1>1, Resting DEF compile_and_submit_intent, Client, IInv, Fields
<1>2. ASSUME NEW mutations, run_autonomous_cycle(mutations) PROVE IInv'
    BY <1>2, Resting DEF run_autonomous_cycle, Client, IInv, Fields
<1>3. ASSUME WriteNext \/ CheckWritten PROVE IInv'
    BY <1>3, Resting DEF WriteNext, CheckWritten, Client, Idle, IInv, Fields
<1>4. ASSUME Reconnect PROVE IInv'
    BY <1>4, PathsAssumption DEF Reconnect, Client, Fresh, IInv, Fields, Underway, Closed
<1>5. ASSUME client' = client PROVE IInv'
    BY <1>5 DEF IInv, Fields, Underway, Closed, Covered, Required
<1>6. ASSUME NEW p, NEW text, NEW restore, validate_patch(p, text, restore) PROVE client' = client
    BY <1>6 DEF validate_patch, Server
<1>7. ASSUME ApplyPatch \/ Raises \/ TryEngine \/ AllTried \/ Answer \/ ServerDies PROVE client' = client
    BY <1>7 DEF ApplyPatch, Raises, TryEngine, AllTried, Answer, ServerDies, Server
<1>8. ASSUME NEW p, NEW text, Edit(p, text) PROVE client' = client
    BY <1>8 DEF Edit
<1>. QED
    BY <1>1, <1>2, <1>3, <1>4, <1>5, <1>6, <1>7, <1>8, RoundInv DEF Next, vars

-----------------------------------------------------------------------------
\* READY rests on a finished round that ran, and passed, every engine the contract of that round's
\* program requires, whichever program the client holds by now (SClassClient.verify_obligations,
\* evaluate_and_release).
THEOREM ReadyAlwaysVerified == Spec => []ReadyIsVerified
<1>1. IInv => ReadyIsVerified
    BY DEF IInv, Closed, Covered, ReadyIsVerified
<1>. QED
    BY <1>1, InitInv, NextInv, PTL DEF Spec

-----------------------------------------------------------------------------
(* What is put back.                                                       *)

Reached == Files \cup {Linked}
Found == Contents \cup {Missing}

\* There is a content or nothing where a trial can reach.
Workspace == files \in [Reached -> Found]

\* What the client is about to write is content.
Writing == \A p \in DOMAIN client.mutations : client.mutations[p] \in Contents

\* A call under way holds what it found at its target, and its patch until it is written.
Calling ==
    call.pc # "idle" =>
        /\ DOMAIN call = {"pc", "target", "patch", "restore", "original", "todo", "passed", "touched", "reply"}
        /\ call.target \in Reached /\ call.original \in Found
        /\ call.pc = "staged" => call.patch \in Contents

Held == Fields /\ Workspace /\ Writing /\ Calling

LEMMA HeldInit == Init => Held
BY PathsAssumption DEF Init, Held, Fields, Workspace, Writing, Calling, Fresh, NoCall, Reached, Found

\* Whoever writes a file, the call keeps what it found.
LEMMA TouchedCalling == ASSUME Calling, NEW p, call' = Touched(p) PROVE Calling'
<1>1. CASE call.pc # "idle" /\ call.target = p
    <2>1. call' = [call EXCEPT !.touched = TRUE]
        BY <1>1 DEF Touched
    <2>. QED
        BY <1>1, <2>1 DEF Calling, Reached, Found
<1>2. CASE ~ (call.pc # "idle" /\ call.target = p)
    <2>1. call' = call
        BY <1>2 DEF Touched
    <2>. QED
        BY <2>1 DEF Calling, Reached, Found
<1>. QED
    BY <1>1, <1>2

\* The client's own steps.
LEMMA ClientHeld ==
    ASSUME Held, Fields', UNCHANGED <<files, call>>, client'.mutations \in {client.mutations, <<>>}
    PROVE  Held'
BY DEF Held, Workspace, Writing, Calling, Reached, Found

LEMMA WriteHeld == ASSUME Held, WriteNext PROVE Held'
<1>. DEFINE p == Head(client.todo)
<1>1. CASE CanWrite(p, client.mutations)
    <2>1. /\ files' = [files EXCEPT ![p] = client.mutations[p]] /\ call' = Touched(p)
          /\ client' = [client EXCEPT !.todo = Tail(@)]
          /\ p \in Files /\ client.mutations[p] \in Contents
        BY <1>1 DEF WriteNext, CanWrite, Allowed, Held, Writing
    <2>2. Fields' /\ client'.mutations = client.mutations
        BY <2>1 DEF Held, Fields
    <2>3. Workspace'
        BY <2>1 DEF Held, Workspace, Reached, Found
    <2>. QED
        BY <2>1, <2>2, <2>3, TouchedCalling DEF Held, Writing
<1>2. CASE ~CanWrite(p, client.mutations)
    <2>1. client' = Idle(client) /\ UNCHANGED <<files, call>>
        BY <1>2 DEF WriteNext
    <2>2. Fields' /\ client'.mutations = <<>>
        BY <2>1 DEF Idle, Held, Fields
    <2>. QED
        BY <2>1, <2>2, ClientHeld
<1>. QED
    BY <1>1, <1>2

\* The server's own steps leave the client alone.
LEMMA ServerHeld ==
    ASSUME Held, ApplyPatch \/ Raises \/ TryEngine \/ AllTried \/ Answer \/ ServerDies
    PROVE  Held'
<1>1. Fields' /\ Writing'
    BY DEF ApplyPatch, Raises, TryEngine, AllTried, Answer, ServerDies, Server, Held, Fields, Writing
<1>2. Calling'
    <2>1. ASSUME ApplyPatch PROVE Calling'
        BY <2>1 DEF ApplyPatch, Server, Ending, Held, Calling, Reached, Found
    <2>2. ASSUME Raises \/ TryEngine \/ AllTried PROVE Calling'
        BY <2>2 DEF Raises, TryEngine, AllTried, Server, Ending, Held, Calling, Reached, Found
    <2>3. ASSUME Answer \/ ServerDies PROVE Calling'
        BY <2>3 DEF Answer, ServerDies, Server, NoCall, Calling
    <2>. QED
        BY <2>1, <2>2, <2>3
<1>3. Workspace'
    <2>1. ASSUME ApplyPatch PROVE Workspace'
        BY <2>1 DEF ApplyPatch, Held, Workspace, Calling, Reached, Found
    <2>2. ASSUME Answer PROVE Workspace'
        <3>1. \A c \in Contents : AsText[c] \in Contents
            BY PathsAssumption
        <3>2. call.target \in Reached /\ call.original \in Found
            BY <2>2 DEF Answer, Held, Calling
        <3>. QED
            BY <2>2, <3>1, <3>2 DEF Answer, Held, Workspace, Found
    <2>3. ASSUME Raises \/ TryEngine \/ AllTried \/ ServerDies PROVE Workspace'
        BY <2>3 DEF Raises, TryEngine, AllTried, ServerDies, Held, Workspace, Reached, Found
    <2>. QED
        BY <2>1, <2>2, <2>3
<1>. QED
    BY <1>1, <1>2, <1>3 DEF Held

\* A call begins with what is in the file.
LEMMA BeginHeld ==
    ASSUME Held, NEW p \in Tried, NEW text \in Texts, NEW restore \in BOOLEAN, validate_patch(p, text, restore)
    PROVE  Held'
<1>1. p \in Reached /\ text \in Contents
    BY PathsAssumption DEF validate_patch, Paths, Reached
<1>2. files[p] \in Found
    BY <1>1 DEF Held, Workspace
<1>3. Calling'
    BY <1>1, <1>2 DEF validate_patch, Server, Calling, Reached, Found
<1>. QED
    BY <1>3 DEF validate_patch, Server, Held, Fields, Workspace, Writing, Reached, Found

LEMMA EditHeld ==
    ASSUME Held, NEW p \in Edited, NEW text \in Contents \cup {Missing}, Edit(p, text) PROVE Held'
<1>1. Workspace'
    BY DEF Edit, Held, Workspace, Reached, Found
<1>2. Calling'
    BY TouchedCalling DEF Edit, Held
<1>. QED
    BY <1>1, <1>2 DEF Edit, Held, Fields, Writing

\* A cycle starts with contents that a patch may write.
LEMMA CycleHeld ==
    ASSUME Held, NEW mutations, \A p \in DOMAIN mutations : mutations[p] \in Texts,
           run_autonomous_cycle(mutations)
    PROVE  Held'
<1>1. /\ Fields' /\ client'.mutations = mutations /\ UNCHANGED <<files, call>>
    BY DEF run_autonomous_cycle, Client, Held, Fields
<1>2. Writing'
    BY <1>1, PathsAssumption DEF Writing
<1>. QED
    BY <1>1, <1>2 DEF Held, Workspace, Calling, Reached, Found

LEMMA HeldNext == Held /\ [Next]_vars => Held'
<1> SUFFICES ASSUME Held, [Next]_vars PROVE Held'
    OBVIOUS
<1>1. ASSUME NEW i, compile_and_submit_intent(i) PROVE Held'
    BY <1>1, ClientHeld DEF compile_and_submit_intent, Client, Held, Fields
<1>2. ASSUME NEW targets, NEW text \in Texts,
             run_autonomous_cycle(_synthesize_dynamic_patch(targets, text)) PROVE Held'
    BY <1>2, CycleHeld, PathsAssumption DEF _synthesize_dynamic_patch
<1>3. ASSUME NEW S, NEW mutations \in [S -> Texts], run_autonomous_cycle(mutations) PROVE Held'
    BY <1>3, CycleHeld
<1>4. ASSUME CheckWritten \/ CloseRound PROVE Held'
    <2>1. Fields' /\ client'.mutations = <<>> /\ UNCHANGED <<files, call>>
        BY <1>4 DEF CheckWritten, CloseRound, Client, Idle, Held, Fields
    <2>. QED
        BY <2>1, ClientHeld
<1>5. ASSUME verify_obligations \/ evaluate_and_release PROVE Held'
    <2>1. Fields' /\ client'.mutations = client.mutations /\ UNCHANGED <<files, call>>
        BY <1>5 DEF verify_obligations, evaluate_and_release, Client, Held, Fields
    <2>. QED
        BY <2>1, ClientHeld
<1>6. ASSUME verify_step PROVE Held'
    <2>1. /\ Fields' /\ client'.mutations \in {client.mutations, <<>>} /\ UNCHANGED <<files, call>>
        BY <1>6 DEF verify_step, Client, Idle, Held, Fields
    <2>. QED
        BY <2>1, ClientHeld
<1>7. ASSUME Reconnect PROVE Held'
    <2>1. Fields' /\ client'.mutations = <<>> /\ UNCHANGED <<files, call>>
        BY <1>7 DEF Reconnect, Client, Fresh, Fields
    <2>. QED
        BY <2>1, ClientHeld
<1>8. CASE UNCHANGED vars
    BY <1>8 DEF vars, Held, Fields, Workspace, Writing, Calling, Reached, Found
<1>. QED
    BY <1>1, <1>2, <1>3, <1>4, <1>5, <1>6, <1>7, <1>8, WriteHeld, ServerHeld, BeginHeld, EditHeld DEF Next

\* Whenever the server answers a call with restore, whatever ended the call and wherever its path
\* led, the target reads as it did when it was found (validate_patch's finally block).
THEOREM RestoreAlwaysKeepsText == Spec => RestoreKeepsText
<1>. DEFINE Restored ==
        call.pc # "idle" /\ call'.pc = "idle" /\ call'.reply # None /\ call.restore /\ ~call.touched =>
            \/ files'[call.target] = Missing /\ call.original = Missing
            \/ /\ files'[call.target] # Missing /\ call.original # Missing
               /\ AsText[files'[call.target]] = AsText[call.original]
<1>1. ASSUME Held, Answer PROVE Restored
    <2>1. call.target \in DOMAIN files /\ call.original \in Found
        BY <1>1 DEF Answer, Held, Calling, Workspace
    <2>2. \A c \in Contents : AsText[c] \in Contents /\ AsText[AsText[c]] = AsText[c] /\ c # Missing
        BY PathsAssumption
    <2>. QED
        BY <1>1, <2>1, <2>2 DEF Answer, PutBack, Found
<1>2. ASSUME ServerDies PROVE Restored
    BY <1>2 DEF ServerDies, Server, NoCall
<1>3. ASSUME Held, call.pc # "idle", NEW p, call' = Touched(p) PROVE call'.pc = call.pc
    BY <1>3 DEF Held, Calling, Touched
<1>4. ASSUME Held, NEW p, NEW text, Edit(p, text) PROVE Restored
    BY <1>3, <1>4 DEF Edit
<1>5. ASSUME Held, WriteNext PROVE Restored
    BY <1>3, <1>5 DEF WriteNext
<1>6. ASSUME Held, ApplyPatch \/ Raises \/ TryEngine \/ AllTried PROVE Restored
    <2>1. call.pc # "idle" => call'.pc # "idle"
        BY <1>6 DEF ApplyPatch, Raises, TryEngine, AllTried, Ending, Server, Held, Calling
    <2>. QED
        BY <2>1
<1>7. Held /\ [Next]_vars => [Restored]_vars
    BY <1>1, <1>2, <1>4, <1>5, <1>6
    DEF Next, vars, compile_and_submit_intent, run_autonomous_cycle, CheckWritten, verify_obligations, verify_step,
        CloseRound, evaluate_and_release, Reconnect, validate_patch, Client, Server
<1>. QED
    BY <1>7, HeldInit, HeldNext, PTL DEF Spec, RestoreKeepsText
=============================================================================
