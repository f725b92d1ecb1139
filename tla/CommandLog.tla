------------------------------ MODULE CommandLog ------------------------------
(***************************************************************************)
(* What the control plane promises its clients, without SQLite: a history *)
(* of facts to which a command is added in one step, right after the head *)
(* it names, or is refused for good; a verdict per command id, given once; *)
(* and answers that only ever repeat the verdict.                          *)
(***************************************************************************)
EXTENDS Integers, Sequences

CONSTANTS CmdIds, Facts, Batches, NoCmd, NoRow

Commands == [id : CmdIds, expected : Nat, fact : Facts]
Verdicts == [cmd : Commands, status : {"APPLIED", "STALE_HEAD"}, seq : Nat]

VARIABLES
    history,  \* the facts so far, each with the command it comes from, or NoCmd
    verdict,  \* per command id: what was decided, or NoRow
    issued,   \* commands clients may submit
    answers   \* what callers were told

vars == <<history, verdict, issued, answers>>

Init ==
    /\ history = <<>>
    /\ verdict = [i \in CmdIds |-> NoRow]
    /\ issued = {}
    /\ answers = {}

Coherent(h) == \A m, n \in DOMAIN h : h[m].fact.ident = h[n].fact.ident => h[m].fact = h[n].fact

Decide(c, status, seq) ==
    /\ verdict[c.id] = NoRow
    /\ verdict' = [verdict EXCEPT ![c.id] = [cmd |-> c, status |-> status, seq |-> seq]]

Issue(c) ==
    /\ c.expected = Len(history)
    /\ issued' = issued \cup {c}
    /\ UNCHANGED <<history, verdict, answers>>

Apply(c) ==
    /\ c.expected = Len(history)
    /\ history' = Append(history, [by |-> c, fact |-> c.fact])
    /\ Coherent(history')
    /\ Decide(c, "APPLIED", Len(history) + 1)
    /\ UNCHANGED <<issued, answers>>

Refuse(c) ==
    /\ c.expected < Len(history)
    /\ Decide(c, "STALE_HEAD", Len(history))
    /\ UNCHANGED <<history, issued, answers>>

\* Facts written without a command: a batch, an external-effect receipt.
Extend(facts) ==
    /\ history' = history \o [k \in DOMAIN facts |-> [by |-> NoCmd, fact |-> facts[k]]]
    /\ Coherent(history')
    /\ UNCHANGED <<verdict, issued, answers>>

Answer(c, told) ==
    /\ verdict[c.id] # NoRow /\ verdict[c.id].cmd = c
    /\ told \in {verdict[c.id].status, "IDEMPOTENT_REPLAY"}
    /\ answers' = answers \cup {[cmd |-> c, told |-> told, seq |-> verdict[c.id].seq]}
    /\ UNCHANGED <<history, verdict, issued>>

Next ==
    \/ \E id \in CmdIds, fact \in Facts :
           Issue([id |-> id, expected |-> Len(history), fact |-> fact])
    \/ \E c \in issued : Apply(c) \/ Refuse(c)
    \/ \E c \in issued, told \in {"APPLIED", "STALE_HEAD", "IDEMPOTENT_REPLAY"} : Answer(c, told)
    \/ \E facts \in Batches \cup {<<f>> : f \in Facts} : Extend(facts)

Spec == Init /\ [][Next]_vars
=============================================================================
