------------------------------ MODULE Product ------------------------------
(***************************************************************************)
(* The product around the control plane: the Python client's golden slice  *)
(* (compile an intent, apply a patch, verify, release), the patch worker   *)
(* that writes the workspace, the verification engines that read it, and   *)
(* the MCP server that tries a patch out and may put the file back.  The   *)
(* client and the server are processes of their own over one workspace and *)
(* one event store; people and tests edit the same files at any time.      *)
(*                                                                         *)
(* A content is known by the engines it satisfies, and by the content it   *)
(* becomes when it is read as text and written as text again, which makes  *)
(* all line ends those of the host.  An engine can pass its targets only   *)
(* if every one of them is there and satisfies it.  It can always fail: a  *)
(* timeout or a missing tool is a failure.                                 *)
(***************************************************************************)
EXTENDS Naturals, Sequences, SequencesExt, TLC

CONSTANTS Files,        \* paths a write can reach
          Linked,       \* a path that is well formed and resolves to a file outside the workspace
          Outside,      \* a path that is absolute or climbs out
          Order,        \* all paths, sorted
          Tests,        \* the files that are tests
          Inits,        \* the package files every synthesized patch carries
          Contents, Empty,
          Satisfies,    \* per content: the engines it satisfies
          AsText,       \* per content: what read_text followed by write_text makes of it
          Texts,        \* contents a patch may write
          Dashed,       \* the paths that start with a dash
          Intents,      \* intents: paths named, files whose module is mentioned, the pair of
                        \* paths inferred from the wording, whether property tests are asked for
          Tried,        \* the paths the MCP server is asked to try a patch on
          Patches,      \* the sets of paths a patch generator answers with
          Edited,       \* bound: the files others write
          MaxEdits,     \* bound: edits by others
          None, Missing

Engines == {"pytest", "ruff", "hypothesis"}
Paths == Files \cup {Linked, Outside}
ASSUME PathsAssumption ==
    /\ Empty \in Texts /\ Texts \subseteq Contents /\ Missing \notin Contents
    /\ Satisfies \in [Contents -> SUBSET Engines]
    /\ AsText \in [Contents -> Contents] /\ \A c \in Contents : AsText[AsText[c]] = AsText[c]
    /\ Linked \notin Files /\ Outside \notin Files \cup {Linked}
    /\ Inits \subseteq Files /\ Tests \subseteq Files /\ ToSet(Order) = Paths
    /\ Intents \subseteq [named : SUBSET Paths, mentioned : SUBSET Files,
                          inferred : SUBSET Files, properties : BOOLEAN]
    /\ Dashed \subseteq Paths /\ Patches \subseteq SUBSET Paths
    /\ Tried \subseteq Paths /\ Edited \subseteq Files \cup {Linked} /\ None # "READY"

VARIABLES files,      \* the workspace, and the file outside it that the link leads to
          client,     \* an SClassClient
          call,       \* the MCP server's tool call
          edits       \* edits made so far

vars == <<files, client, call, edits>>

---------------------------------------------------------------------------
(* The intent compiler. *)

\* Paths named win; else files of the workspace the wording mentions; else a pair made up.
_analyze_intent_and_repo(i) ==
    LET present == {p \in i.mentioned : files[p] # Missing} IN
    [targets    |-> IF i.named # {} THEN i.named
                    ELSE IF present # {} THEN present ELSE i.inferred,
     properties |-> i.properties]

\* What the acceptance contract requires of the verification obligation ...
Required(program) ==
    {"pytest", "ruff"} \cup IF program.properties THEN {"hypothesis"} ELSE {}

\* A bug to be caught: the plan forgets the step an intent asked for.
StepsWithoutExtras(program) == <<"pytest", "ruff">>

\* ... and the steps of the plan that is to produce it.
Steps(program) ==
    IF program.properties THEN <<"pytest", "ruff", "hypothesis">> ELSE <<"pytest", "ruff">>

---------------------------------------------------------------------------
(* The patch worker: paths are judged when staged, and again when written. *)

Stageable(mutations) == Outside \notin DOMAIN mutations

\* The paths to write, in sorted order.
Writes(mutations) == SelectSeq(Order, LAMBDA p : p \in DOMAIN mutations)

\* The request of a patch names exactly the patch's own paths.
Allowed(p, mutations) == p \in DOMAIN mutations

CanWrite(p, mutations) == p \in Files /\ Allowed(p, mutations)

---------------------------------------------------------------------------
(* The verification engines. *)

sanitize_targets(targets) == targets \cap Dashed = {}
\* Engines follow links, and what they make of a path that climbs out is anybody's guess.
Satisfied(e, targets) ==
    \A p \in targets \ {Outside} : files[p] # Missing /\ e \in Satisfies[files[p]]
Outcomes(e, targets) == {FALSE} \cup IF Satisfied(e, targets) THEN {TRUE} ELSE {}

\* A closure is SATISFIED when there are receipts and all of them pass.
create_evidence_closure(receipts) ==
    IF receipts # {} /\ \A r \in receipts : r.pass THEN "SATISFIED" ELSE "UNSATISFIED"

---------------------------------------------------------------------------
(* The client. *)

Fresh == [pc |-> "idle", program |-> None, mutations |-> <<>>, todo |-> <<>>,
          receipts |-> {}, closure |-> None, verdict |-> None]
NoCall(answer) == [pc |-> "idle", reply |-> answer]

Init ==
    /\ files \in [Files \cup {Linked} -> {Missing, Empty}]
    /\ client = Fresh
    /\ call = NoCall(None)
    /\ edits = 0

Client(c) == client' = c /\ UNCHANGED <<call, edits>>
\* Somebody other than the server writes the file the server is trying a patch on.
Touched(p) == IF call.pc # "idle" /\ call.target = p THEN [call EXCEPT !.touched = TRUE] ELSE call
Idle(c) == [c EXCEPT !.pc = "idle", !.mutations = <<>>, !.todo = <<>>, !.receipts = {}]

\* The program becomes the client's current one before the objective is submitted, and stays
\* it whatever comes of the submission, an exception included: the client does not look at
\* the answer, and nothing it does later depends on the objective the store holds.
compile_and_submit_intent(i) ==
    /\ client.pc = "idle"
    /\ Client([client EXCEPT !.program = _analyze_intent_and_repo(i), !.verdict = None])
    /\ UNCHANGED files

\* Content of a synthesized patch: one text for every target, nothing in the package files.
_synthesize_dynamic_patch(targets, text) ==
    [p \in Inits \cup targets |-> IF p \in targets THEN text ELSE Empty]

\* A path that may not be staged raises before anything is written.
run_autonomous_cycle(mutations) ==
    /\ client.pc = "idle" /\ client.program # None
    /\ Stageable(mutations)
    /\ Client([client EXCEPT !.pc = "applying", !.mutations = mutations, !.verdict = None,
                             !.todo = Writes(mutations)])
    /\ UNCHANGED files

\* One file after the other: a path refused midway leaves the earlier files written.
WriteNext ==
    /\ client.pc = "applying" /\ client.todo # <<>>
    /\ LET p == Head(client.todo) IN
       IF CanWrite(p, client.mutations)
       THEN /\ files' = [files EXCEPT ![p] = client.mutations[p]]
            /\ client' = [client EXCEPT !.todo = Tail(@)]
            /\ call' = Touched(p)
       ELSE client' = Idle(client) /\ UNCHANGED <<files, call>>
    /\ UNCHANGED edits

\* The compile run at the end passes, fails or raises: nothing comes of it.
CheckWritten ==
    /\ client.pc = "applying" /\ client.todo = <<>>
    /\ Client(Idle(client))
    /\ UNCHANGED files

verify_obligations ==
    /\ client.pc = "idle" /\ client.program # None
    /\ Client([client EXCEPT !.pc = "verifying", !.todo = Steps(client.program),
                             !.verdict = None])
    /\ UNCHANGED files

\* A target that looks like a flag raises: the closure of an earlier round stays.
verify_step ==
    /\ client.pc = "verifying" /\ client.todo # <<>>
    /\ LET e == Head(client.todo) IN
       IF ~sanitize_targets(client.program.targets) THEN Client(Idle(client))
       ELSE \E ok \in Outcomes(e, client.program.targets) :
               Client([client EXCEPT !.todo = Tail(@),
                                     !.receipts = @ \cup {[engine |-> e, pass |-> ok]}])
    /\ UNCHANGED files

CloseRound ==
    /\ client.pc = "verifying" /\ client.todo = <<>>
    /\ Client([Idle(client) EXCEPT
                  !.closure = [program |-> client.program,
                               verdict |-> create_evidence_closure(client.receipts),
                               passed  |-> {r.engine : r \in {s \in client.receipts : s.pass}}]])
    /\ UNCHANGED files

evaluate_and_release ==
    /\ client.pc = "idle"
    /\ Client([client EXCEPT !.verdict =
                  IF client.closure # None /\ client.closure.verdict = "SATISFIED"
                  THEN "READY" ELSE "BLOCKED"])
    /\ UNCHANGED files

\* Another process on the same database: what a client knows lives in its memory.
Reconnect == client # Fresh /\ Client(Fresh) /\ UNCHANGED files

---------------------------------------------------------------------------
(* The MCP server: one tool call at a time. *)

Server(c) == call' = c /\ UNCHANGED <<client, edits>>

\* The file is read before anything else; a path that climbs out is refused before that.
validate_patch(p, text, restore) ==
    /\ call.pc = "idle" /\ p # Outside
    /\ Server([pc |-> "staged", target |-> p, patch |-> text, restore |-> restore,
               original |-> files[p], todo |-> <<>>, passed |-> TRUE, touched |-> FALSE, reply |-> None])
    /\ UNCHANGED files

Ending(c, answer) == [c EXCEPT !.pc = "ending", !.reply = answer, !.patch = None,
                               !.passed = TRUE, !.todo = <<>>]

\* The engines a patch is tried with; a test is run as well.
EnginesFor(p) == <<"ruff">> \o IF p \in Tests THEN <<"pytest">> ELSE <<>>

ApplyPatch ==
    /\ call.pc = "staged"
    /\ IF CanWrite(call.target, call.target :> call.patch)
       THEN /\ files' = [files EXCEPT ![call.target] = call.patch]
            /\ Server([call EXCEPT !.pc = "written", !.patch = None,
                                   !.todo = EnginesFor(call.target)])
       ELSE Server(Ending(call, "ERROR")) /\ UNCHANGED files

\* The compile run, the world model and the engines may raise at any point.
Raises ==
    /\ call.pc = "written"
    /\ Server(Ending(call, "ERROR"))
    /\ UNCHANGED files

\* An engine runs twice, for the diagnostics and for the receipt; the first run counts.
TryEngine ==
    /\ call.pc = "written" /\ call.todo # <<>>
    /\ \E ok \in Outcomes(Head(call.todo), {call.target}) :
          Server([call EXCEPT !.todo = Tail(@), !.passed = @ /\ ok])
    /\ UNCHANGED files

AllTried ==
    /\ call.pc = "written" /\ call.todo = <<>>
    /\ Server(Ending(call, IF call.passed THEN "PASS" ELSE "FAIL"))
    /\ UNCHANGED files

\* A bug to be caught: the file is put back on the way of a normal return only.
PutBackOnReturn(c) == c.restore /\ c.reply # "ERROR"

PutBack(c) == c.restore

\* Whatever ended the call, the file is put back if that was asked, a refused path included: what was
\* read as text is written as text, and a file that was not there is removed.  Then the server
\* answers, with the result or with an error.
Answer ==
    /\ call.pc = "ending"
    /\ files' = IF ~PutBack(call) THEN files
                ELSE [files EXCEPT ![call.target] =
                         IF call.original = Missing THEN Missing ELSE AsText[call.original]]
    /\ Server(NoCall(call.reply))

ServerDies == call.pc # "idle" /\ Server(NoCall(None)) /\ UNCHANGED files

---------------------------------------------------------------------------
(* Everybody else. *)

Edit(p, text) ==
    /\ edits < MaxEdits /\ edits' = edits + 1
    /\ files' = [files EXCEPT ![p] = text]
    /\ call' = Touched(p)
    /\ UNCHANGED client

Next ==
    \/ \E i \in Intents : compile_and_submit_intent(i)
    \/ \E text \in Texts :
          /\ client.program # None
          /\ run_autonomous_cycle(_synthesize_dynamic_patch(client.program.targets, text))
    \/ \E S \in Patches : \E mutations \in [S -> Texts] : run_autonomous_cycle(mutations)
    \/ WriteNext \/ CheckWritten
    \/ verify_obligations \/ verify_step \/ CloseRound
    \/ evaluate_and_release
    \/ Reconnect
    \/ \E p \in Tried, text \in Texts, restore \in BOOLEAN : validate_patch(p, text, restore)
    \/ ApplyPatch \/ Raises \/ TryEngine \/ AllTried \/ Answer
    \/ ServerDies
    \/ \E p \in Edited, text \in Contents \cup {Missing} : Edit(p, text)

Spec == Init /\ [][Next]_vars

---------------------------------------------------------------------------
(* Properties. *)

\* The client says READY only on a verification round that came to its end and in which every
\* engine that the contract of the round's own program requires has passed: a timeout, a missing
\* tool or a round broken off by an exception never counts for a pass.  It says nothing of what the
\* engines saw: the MCP server's trial may have been in the file while they ran, files may have been
\* edited since, and the round may have been another program's than the client's present one.
ReadyIsVerified ==
    client.verdict = "READY" =>
        /\ client.closure # None
        /\ Required(client.closure.program) \subseteq client.closure.passed

\* What the design says of superseded chains, and the client does not keep: READY stands on a
\* round that verified the program the client holds.
ReadyIsCurrent ==
    client.verdict = "READY" => client.closure.program = client.program

\* A patch tried out with restore leaves a target that reads as it did, or none where there was none,
\* whenever the server answers, be it after a refused write, a compile run that raised or an engine
\* that failed, also where the path leads out of the workspace; line ends may be others than before.
\* Only a file somebody else wrote meanwhile, or a server that died, is beyond it.
RestoreKeepsText ==
    [][call.pc # "idle" /\ call'.pc = "idle" /\ call'.reply # None /\ call.restore /\ ~call.touched =>
         \/ files'[call.target] = Missing /\ call.original = Missing
         \/ /\ files'[call.target] # Missing /\ call.original # Missing
            /\ AsText[files'[call.target]] = AsText[call.original]]_vars
=============================================================================
