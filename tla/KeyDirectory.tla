---------------------------- MODULE KeyDirectory ----------------------------
(***************************************************************************)
(* The runtime's trust registry (SQLiteKeyDirectory), the boundary         *)
(* attestor that imports its own key into it (LocalQuiescenceAttestor), the *)
(* worker registry, and every place of the runtime that accepts a          *)
(* signature: signed artifacts at ingress, authorization leases, worker    *)
(* attestations and quiescence proofs.                                     *)
(*                                                                         *)
(* A signature is the block [key, root, material]: the key id and the root *)
(* it names, and the key pair it was really made with, which the holders   *)
(* of a pair use outside the runtime whenever they like.  A signed document *)
(* with a validity window carries a block: a lease or a worker attestation. *)
(***************************************************************************)
EXTENDS Naturals

CONSTANTS Keys, Roots, Materials, Workers,
          Windows,       \* the [from, until] validity windows keys and documents are given
          MaxTime,       \* bound: the last instant of the clock
          NoKey, NoBlob, NoAttestor, None

ASSUME WindowsAssumption == Windows \subseteq [from : Nat, until : Nat]

VARIABLES now,       \* the clock
          roots,     \* runtime_trust_roots: the active roots
          keys,      \* runtime_keys: NoKey, or the row of a key id
          held,      \* _private_keys: the pairs this process bootstrapped, lost with it
          attestor,  \* boundary_attestor: the block it signs with, or NoAttestor
          workers,   \* runtime_workers: NoBlob, or [active, blob]
          up,        \* the control plane was constructed
          relied,    \* history: the keys the last step relied on
          gone       \* history: the keys ever rotated out or revoked

keyVars == <<now, roots, keys, held, attestor, workers, up, relied, gone>>

Block == [key : Keys, root : Roots, material : Materials]
Document == [block : Block, window : Windows]
KeyRow == [root : Roots, material : Materials, status : {"ACTIVE", "ROTATED_OUT", "REVOKED"},
           window : Windows, revoked : 0..MaxTime \cup {None}]
Instants == 0..MaxTime

ASSUME IdentityAssumption == MaxTime \in Nat /\ None \notin Nat /\ NoKey \notin KeyRow

Within(t, w) == w.from <= t /\ t < w.until
RevokedAt(row, t) == row.revoked # None /\ t >= row.revoked

---------------------------------------------------------------------------
(* The questions the directory answers. *)

Known(b) == keys[b.key] # NoKey /\ keys[b.key].root = b.root

status(b, t) ==
    LET row == keys[b.key] IN
    CASE ~Known(b) -> "UNKNOWN"
      [] Known(b) /\ RevokedAt(row, t) -> "REVOKED"
      [] Known(b) /\ ~RevokedAt(row, t) /\ ~Within(t, row.window) -> "EXPIRED"
      [] OTHER -> row.status

\* Was the key usable at the instant given?  Rotation leaves the past alone.
verify_historical(b, t) ==
    /\ Known(b)
    /\ Within(t, keys[b.key].window)
    /\ ~RevokedAt(keys[b.key], t)
    /\ b.material = keys[b.key].material

\* A bug to be caught: the ingress asks whether the signature was good when it was made.
JudgedAsHistory(b, t) == verify_historical(b, t)

\* Does the key have authority now?  The present status counts whatever instant is given.
verify_current(b, t) ==
    /\ Known(b)
    /\ Within(t, keys[b.key].window)
    /\ keys[b.key].status = "ACTIVE"
    /\ ~RevokedAt(keys[b.key], t)
    /\ b.material = keys[b.key].material

---------------------------------------------------------------------------
(* Administration of roots and keys. *)

KeysInit ==
    /\ now = 0 /\ roots = {} /\ up = TRUE
    /\ keys = [k \in Keys |-> NoKey]
    /\ held = [k \in Keys |-> None]
    /\ attestor = NoAttestor
    /\ workers = [w \in Workers |-> NoBlob]
    /\ relied = {} /\ gone = {}

add_root(r) ==
    /\ up
    /\ roots' = roots \cup {r}
    /\ relied' = {}
    /\ UNCHANGED <<now, keys, held, attestor, workers, up, gone>>

NewRow(r, mat, w) ==
    [root |-> r, material |-> mat, status |-> "ACTIVE", window |-> w, revoked |-> None]

register(k, r, mat, w) ==
    /\ up /\ w.from < w.until
    /\ r \in roots
    /\ keys[k] = NoKey
    /\ keys' = [keys EXCEPT ![k] = NewRow(r, mat, w)]
    /\ relied' = {}
    /\ UNCHANGED <<now, roots, held, attestor, workers, up, gone>>

\* The root is added first and stays added when the key id turns out to be taken.
bootstrap_key(k, r, mat, w) ==
    /\ up /\ w.from < w.until
    /\ roots' = roots \cup {r}
    /\ keys' = IF keys[k] = NoKey THEN [keys EXCEPT ![k] = NewRow(r, mat, w)] ELSE keys
    /\ held' = IF keys[k] = NoKey THEN [held EXCEPT ![k] = mat] ELSE held
    /\ relied' = {}
    /\ UNCHANGED <<now, attestor, workers, up, gone>>

rotate_out(k) ==
    /\ up /\ keys[k] # NoKey /\ keys[k].status = "ACTIVE"
    /\ keys' = [keys EXCEPT ![k].status = "ROTATED_OUT"]
    /\ gone' = gone \cup {k}
    /\ relied' = {}
    /\ UNCHANGED <<now, roots, held, attestor, workers, up>>

\* Revoking again moves the instant from which the key's signatures are bad.
revoke(k) ==
    /\ up /\ keys[k] # NoKey
    /\ keys' = [keys EXCEPT ![k].status = "REVOKED", ![k].revoked = now]
    /\ gone' = gone \cup {k}
    /\ relied' = {}
    /\ UNCHANGED <<now, roots, held, attestor, workers, up>>

---------------------------------------------------------------------------
(* Uses of a signature. *)

RelyOn(K) == /\ relied' = K
             /\ UNCHANGED <<now, roots, keys, held, attestor, workers, up, gone>>

\* A process signs with a pair it holds.
sign(k) ==
    /\ up /\ held[k] # None /\ keys[k] # NoKey
    /\ keys[k].status = "ACTIVE" /\ ~RevokedAt(keys[k], now) /\ Within(now, keys[k].window)
    /\ RelyOn({k})

\* Commands, approvals, assessments, waivers, receipts: every signature of the payload is
\* judged anew at ingress, whatever the record that comes with it says.
Ingest(B) ==
    /\ up
    /\ \A b \in B : verify_current(b, now)
    /\ RelyOn({b.key : b \in B})

verify_authorization_lease(d) ==
    /\ up
    /\ Within(now, d.window)
    /\ status(d.block, now) = "ACTIVE"
    /\ verify_current(d.block, now)
    /\ RelyOn({d.block.key})

\* The attestor signs with its own pair, of whatever standing; the proof is then judged.
attest ==
    /\ up /\ attestor # NoAttestor
    /\ verify_current(attestor, now)
    /\ RelyOn({attestor.key})

_verify_worker_attestation(w) ==
    /\ up
    /\ workers[w] # NoBlob /\ workers[w].active /\ workers[w].blob # NoBlob
    /\ LET att == workers[w].blob IN
       /\ Within(now, att.window)
       /\ status(att.block, now) = "ACTIVE"
       /\ verify_current(att.block, now)
       /\ RelyOn({att.block.key})

---------------------------------------------------------------------------
(* Worker registration judges no signature: the gate does, at each use. *)

SetWorker(w, row) ==
    /\ up
    /\ workers' = [workers EXCEPT ![w] = row]
    /\ relied' = {}
    /\ UNCHANGED <<now, roots, keys, held, attestor, up, gone>>

register_worker(w) == SetWorker(w, [active |-> TRUE, blob |-> NoBlob])
register_attestation(w, d) == SetWorker(w, [active |-> TRUE, blob |-> d])
revoke_worker(w) == workers[w] # NoBlob /\ SetWorker(w, [workers[w] EXCEPT !.active = FALSE])

---------------------------------------------------------------------------
(* The process ends and starts again.  Pairs held in memory are lost.  The *)
(* environment may hold the boundary's pair: its root is added, its key    *)
(* registered, or found registered alike and ACTIVE; anything else stops   *)
(* the construction of the control plane, with the root already added.     *)

Restart ==
    /\ held' = [k \in Keys |-> None]
    /\ attestor' = NoAttestor
    /\ up' = TRUE /\ relied' = {}
    /\ UNCHANGED <<now, roots, keys, workers, gone>>

Importable(b) ==
    \/ keys[b.key] = NoKey
    \/ Known(b) /\ keys[b.key].material = b.material /\ keys[b.key].status = "ACTIVE"

RestartProvisioned(b) ==
    \E w \in {v \in Windows : \A u \in Windows : u.until <= v.until} :
    /\ held' = [k \in Keys |-> None]
    /\ roots' = roots \cup {b.root}
    /\ keys' = IF keys[b.key] = NoKey
               THEN [keys EXCEPT ![b.key] = NewRow(b.root, b.material, w)] ELSE keys
    /\ up' = Importable(b)
    /\ attestor' = IF Importable(b) THEN b ELSE NoAttestor
    /\ relied' = {}
    /\ UNCHANGED <<now, workers, gone>>

Tick ==
    /\ now < MaxTime
    /\ now' = now + 1 /\ relied' = {}
    /\ UNCHANGED <<roots, keys, held, attestor, workers, up, gone>>

KeysNext ==
    \/ \E r \in Roots : add_root(r)
    \/ \E k \in Keys, r \in Roots, mat \in Materials, w \in Windows :
           register(k, r, mat, w) \/ bootstrap_key(k, r, mat, w)
    \/ \E k \in Keys : rotate_out(k) \/ revoke(k) \/ sign(k)
    \/ \E b, c \in Block : Ingest({b, c})
    \/ \E d \in Document : verify_authorization_lease(d)
    \/ attest
    \/ \E w \in Workers : \/ register_worker(w) \/ revoke_worker(w)
                          \/ _verify_worker_attestation(w)
                          \/ \E d \in Document : register_attestation(w, d)
    \/ Restart
    \/ \E b \in Block : RestartProvisioned(b)
    \/ Tick

KeysSpec == KeysInit /\ [][KeysNext]_keyVars

---------------------------------------------------------------------------
(* Properties. *)

\* Distrust is for good and does not rewrite the past: no step relies on a key that was once
\* rotated out or revoked, through restarts, a second bootstrap, the boundary's import of its
\* own key and the re-registration of workers; and a signature that was good at an instant
\* already past stays good for that instant when its key is rotated out or revoked later.
DistrustIsForGood ==
    [][ /\ relied' \cap gone = {}
        /\ \A b \in Block, t \in Instants :
              t < now /\ verify_historical(b, t) => verify_historical(b, t)' ]_keyVars
=============================================================================
