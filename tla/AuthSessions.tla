---------------------------- MODULE AuthSessions ----------------------------
(***************************************************************************)
(* Session families and refresh tokens: src/backend/src/auth, the token    *)
(* service and the session service.                                        *)
(*                                                                         *)
(* A family is one document: its state, the token it accepts now and the   *)
(* one it accepted before, and a retry window in which both are answered   *)
(* with the current one.  A token document only says which family a token  *)
(* is about.  A legacy token has no family yet: its first refresh creates  *)
(* one under the token's own id and links the two.  Every action is one    *)
(* datastore call; any call may be the last of its request (a crash, an    *)
(* error, an account or a lease that is refused, a family that expired).   *)
(***************************************************************************)
EXTENDS Naturals, FiniteSets

CONSTANTS
    Family,         \* session ids
    NoFamily,
    Parent,         \* the session a family was opened from, or NoFamily
    Legacy,         \* the families of legacy tokens
    User, Owner,    \* the account of each family
    Req,            \* requests in flight at one time
    MaxTokens       \* bound: tokens generated

ASSUME ConstantsAssumption ==
    /\ NoFamily \notin Family
    /\ Parent \in [Family -> Family \cup {NoFamily}]
    /\ Legacy \subseteq {f \in Family : Parent[f] = NoFamily}
    /\ Owner \in [Family -> User]
    /\ IsFiniteSet(Legacy) /\ MaxTokens \in Nat /\ Cardinality(Legacy) <= MaxTokens

NoToken == 0
Token == 1 .. MaxTokens
LegacyToken == 1 .. Cardinality(Legacy)

VARIABLES
    fam,        \* the session documents
    doc,        \* the token documents: the family of each persisted token
    linked,     \* legacy tokens with a session_id
    marked,     \* legacy tokens with is_revoked
    op,         \* the requests
    fresh,      \* the next token to generate
    known,      \* tokens that were sent to a client
    answered,   \* refreshes that were answered: <<presented, answer>>
    barred      \* families that a finished revocation was to end, and that it did not find

store == <<fam, doc, linked, marked>>
history == <<known, answered, barred>>
vars == <<store, op, fresh, history>>

-----------------------------------------------------------------------------
NoFam == [state |-> "none", cur |-> NoToken, prev |-> NoToken, retry |-> FALSE]

IdleOp == [pc |-> "idle", f |-> NoFamily, tok |-> NoToken, new |-> NoToken, ans |-> NoToken,
           seen |-> NoFam, ret |-> "idle", todo |-> {}, docs |-> {}, covers |-> {},
           late |-> FALSE]

At(r, pc) == op[r].pc = pc
End(r) == op' = [op EXCEPT ![r] = IdleOp]
Live(f) == f \in Family /\ fam[f].state = "live"
WithChildren(S) == S \cup {g \in Family : Parent[g] \in S}

(* validate: the session, then the parent it was opened from.  A rotation   *)
(* uses what the first read returned after the second.  For the properties, *)
(* a request notes whether a revocation had finished before the read.       *)
Validate(r, f, then) ==
    IF Live(f)
    THEN op' = [op EXCEPT ![r].seen = IF then \in {"swap", "settle"} THEN fam[f] ELSE NoFam,
                          ![r].late = f \in barred /\ then = "answer",
                          ![r].ret = IF Parent[f] = NoFamily THEN "idle" ELSE then,
                          ![r].pc = IF Parent[f] = NoFamily THEN then ELSE "parent"]
    ELSE End(r)

CheckParent(r) ==
    /\ At(r, "parent")
    /\ IF Live(Parent[op[r].f]) /\ Parent[Parent[op[r].f]] = NoFamily
       THEN op' = [op EXCEPT ![r].pc = op[r].ret, ![r].ret = "idle"]
       ELSE End(r)
    /\ UNCHANGED <<store, fresh, history>>

(* revoke and the loops around it: the families still to be revoked, and    *)
(* all that the revocation promises to end.                                 *)
RevokeAll(r, S) == op' = [op EXCEPT ![r] = [IdleOp EXCEPT
                              !.pc = "revoke", !.todo = S, !.covers = WithChildren(S)]]

-----------------------------------------------------------------------------
(* createRefreshToken: a login, a fork or an impersonation *)

(* A client works in the session: it was sent a token that it did not have. *)
HasClient(f) ==
    IF f \in Legacy THEN \E x \in answered : doc[x[1]] = f ELSE \E t \in known : doc[t] = f

Open(r, f) ==
    /\ At(r, "idle")
    /\ fam[f].state = "none" /\ f \notin Legacy
    /\ Parent[f] # NoFamily => Live(Parent[f]) /\ HasClient(Parent[f])
    /\ \A q \in Req : op[q].f # f
    /\ fresh \in Token /\ fresh' = fresh + 1
    /\ op' = [op EXCEPT ![r] = [IdleOp EXCEPT !.pc = "create", !.f = f, !.tok = fresh]]
    /\ UNCHANGED <<store, history>>

Create(r) ==
    /\ At(r, "create")
    /\ fam' = [fam EXCEPT ![op[r].f] = [NoFam EXCEPT !.state = "live", !.cur = op[r].tok]]
    /\ op' = [op EXCEPT ![r].pc = "persist"]
    /\ UNCHANGED <<doc, linked, marked, fresh, history>>

Persist(r) ==
    /\ At(r, "persist")
    /\ \/ /\ doc' = [doc EXCEPT ![op[r].tok] = op[r].f]
          /\ known' = known \cup {op[r].tok}
          /\ End(r)
       \/ RevokeAll(r, {op[r].f}) /\ UNCHANGED <<doc, known>>
    /\ UNCHANGED <<fam, linked, marked, fresh, answered, barred>>

-----------------------------------------------------------------------------
(* refreshToken *)

(* Mutant: a legacy token is linked without the session being created. *)
RefreshLinksOnly(r, t) ==
    /\ At(r, "idle")
    /\ fresh \in Token
    /\ doc[t] \in Legacy \ linked => doc[t] \notin marked
    /\ op' = [op EXCEPT ![r] = [IdleOp EXCEPT
                 !.f = doc[t], !.tok = t,
                 !.pc = IF doc[t] \in Legacy \ linked THEN "link" ELSE "validate"]]
    /\ UNCHANGED <<store, fresh, history>>

(* Bound: no refresh starts when there is no token left to generate. *)
Refresh(r, t) ==
    /\ At(r, "idle")
    /\ fresh \in Token
    /\ doc[t] \in Legacy \ linked => doc[t] \notin marked
    /\ op' = [op EXCEPT ![r] = [IdleOp EXCEPT
                 !.f = doc[t], !.tok = t,
                 !.pc = IF doc[t] \in Legacy \ linked THEN "upgrade" ELSE "validate"]]
    /\ UNCHANGED <<store, fresh, history>>

(* The first of several upgrades creates the family, the others go on. *)
Upgrade(r) ==
    /\ At(r, "upgrade")
    /\ fam' = IF fam[op[r].f].state = "none"
              THEN [fam EXCEPT ![op[r].f] = [NoFam EXCEPT !.state = "live", !.cur = op[r].tok]]
              ELSE fam
    /\ op' = [op EXCEPT ![r].pc = "link"]
    /\ UNCHANGED <<doc, linked, marked, fresh, history>>

(* Mutant: the link does not look at is_revoked. *)
LinkAlways(r) ==
    /\ At(r, "link")
    /\ linked' = linked \cup {op[r].f}
    /\ op' = [op EXCEPT ![r].pc = "validate"]
    /\ UNCHANGED <<fam, doc, marked, fresh, history>>

Link(r) ==
    /\ At(r, "link")
    /\ IF op[r].f \notin marked
       THEN linked' = linked \cup {op[r].f} /\ op' = [op EXCEPT ![r].pc = "validate"]
       ELSE RevokeAll(r, {op[r].f}) /\ UNCHANGED linked
    /\ UNCHANGED <<fam, doc, marked, fresh, history>>

FirstValidate(r) ==
    /\ At(r, "validate")
    /\ Validate(r, op[r].f, "candidate")
    /\ UNCHANGED <<store, fresh, history>>

(* Mutant: the replacement is generated but not persisted. *)
CandidateInMemory(r) ==
    /\ At(r, "candidate")
    /\ fresh \in Token /\ fresh' = fresh + 1
    /\ op' = [op EXCEPT ![r].pc = "rotate", ![r].new = fresh]
    /\ UNCHANGED <<store, history>>

(* The replacement is persisted before anything makes it valid. *)
Candidate(r) ==
    /\ At(r, "candidate")
    /\ fresh \in Token /\ fresh' = fresh + 1
    /\ doc' = [doc EXCEPT ![fresh] = op[r].f]
    /\ op' = [op EXCEPT ![r].pc = "rotate", ![r].new = fresh]
    /\ UNCHANGED <<fam, linked, marked, history>>

RotateRead(r) ==
    /\ At(r, "rotate")
    /\ Validate(r, op[r].f, "swap")
    /\ UNCHANGED <<store, fresh, history>>

(* Mutant: the swap trusts the token that was read before. *)
SwapMatchesStale(r) == Live(op[r].f)

(* Mutant: the filter of the swap does not look at revoked_at. *)
SwapMatchesRevoked(r) == fam[op[r].f].cur = op[r].tok

(* The filter of the swap. *)
SwapMatches(r) == Live(op[r].f) /\ fam[op[r].f].cur = op[r].tok

AnswerWith(r, t) == op' = [op EXCEPT ![r] = [IdleOp EXCEPT
                              !.pc = "final", !.f = op[r].f, !.tok = op[r].tok, !.ans = t]]

(* rotate, from what RotateRead has seen: in the retry window the current   *)
(* token answers, a token that is neither is a replay and ends the family,  *)
(* and the current token is swapped for the replacement.                    *)
Rotate(r) ==
    LET o == op[r] IN
    /\ At(r, "swap")
    /\ \/ /\ o.seen.retry /\ o.tok \in {o.seen.cur, o.seen.prev}
          /\ AnswerWith(r, o.seen.cur)
          /\ UNCHANGED fam
       \/ /\ o.seen.cur # o.tok /\ ~(o.seen.retry /\ o.tok = o.seen.prev)
          /\ RevokeAll(r, {o.f})
          /\ UNCHANGED fam
       \/ /\ o.seen.cur = o.tok /\ ~o.seen.retry
          /\ IF SwapMatches(r)
             THEN /\ fam' = [fam EXCEPT ![o.f] = [@ EXCEPT !.cur = o.new, !.prev = o.tok,
                                                           !.retry = TRUE]]
                  /\ AnswerWith(r, o.new)
             ELSE /\ op' = [op EXCEPT ![r].pc = "lost", ![r].new = NoToken, ![r].seen = NoFam]
                  /\ UNCHANGED fam
    /\ UNCHANGED <<doc, linked, marked, fresh, history>>

(* The loser of the swap answers what the winner has stored. *)
LostRead(r) ==
    /\ At(r, "lost")
    /\ Validate(r, op[r].f, "settle")
    /\ UNCHANGED <<store, fresh, history>>

Settle(r) ==
    /\ At(r, "settle")
    /\ IF op[r].seen.prev = op[r].tok /\ op[r].seen.retry
       THEN AnswerWith(r, op[r].seen.cur)
       ELSE End(r)
    /\ UNCHANGED <<store, fresh, history>>

(* The last look at the family before the answer. *)
FinalValidate(r) ==
    /\ At(r, "final")
    /\ Validate(r, op[r].f, "answer")
    /\ UNCHANGED <<store, fresh, history>>

Answer(r) ==
    /\ At(r, "answer")
    /\ known' = known \cup {op[r].ans}
    /\ answered' = answered \cup {<<op[r].tok, op[r].ans>>}
    /\ End(r)
    /\ UNCHANGED <<store, fresh, barred>>

-----------------------------------------------------------------------------
(* Revocation *)

(* revokeOwned, revokeAllImpersonationTokens: one family. *)
RevokeOne(r, f) ==
    /\ At(r, "idle")
    /\ fam[f].state # "none"
    /\ RevokeAll(r, {f})
    /\ UNCHANGED <<store, fresh, history>>

(* revokeOthers: the ordinary sessions of an account, except one. *)
RevokeOthers(r, f) ==
    /\ At(r, "idle")
    /\ Live(f) /\ HasClient(f)
    /\ RevokeAll(r, {g \in Family \ {f} : Live(g) /\ Owner[g] = Owner[f] /\ Parent[g] = NoFamily})
    /\ UNCHANGED <<store, fresh, history>>

(* revokeToken marks the token, then revokes the family; the mark of a      *)
(* token that has a session_id is never read.                               *)
RevokeToken(r, t) ==
    /\ At(r, "idle")
    /\ marked' = marked \cup {f \in Legacy : t \in LegacyToken /\ doc[t] = f}
    /\ RevokeAll(r, {doc[t]})
    /\ UNCHANGED <<fam, doc, linked, fresh, history>>

(* Mutant: the legacy tokens are not marked before the families are found. *)
MarkNobody(r, u) ==
    /\ At(r, "idle")
    /\ op' = [op EXCEPT ![r] = [IdleOp EXCEPT
                 !.pc = "sweep", !.covers = {f \in Legacy : Owner[f] = u},
                 !.todo = {f \in Family : Owner[f] = u}]]
    /\ UNCHANGED <<store, fresh, history>>

(* revokeAllUserTokens marks the legacy tokens, then finds the families. *)
MarkUser(r, u) ==
    LET owned == {f \in Legacy : Owner[f] = u} IN
    /\ At(r, "idle")
    /\ marked' = marked \cup owned
    /\ op' = [op EXCEPT ![r] = [IdleOp EXCEPT !.pc = "sweep", !.covers = owned,
                                              !.todo = {f \in Family : Owner[f] = u}]]
    /\ UNCHANGED <<fam, doc, linked, fresh, history>>

SweepUser(r) ==
    LET families == {f \in op[r].todo : Live(f)} IN
    /\ At(r, "sweep")
    /\ op' = [op EXCEPT ![r].pc = "revoke", ![r].todo = families,
                         ![r].covers = @ \cup WithChildren(families)]
    /\ UNCHANGED <<store, fresh, history>>

(* A family that is already revoked, or not there, is left alone. *)
RevokeRead(r) ==
    /\ At(r, "revoke")
    /\ \E f \in op[r].todo :
         op' = [op EXCEPT ![r].pc = IF Live(f) THEN "revokeDocs" ELSE "revoke",
                          ![r].todo = @ \ {f},
                          ![r].docs = IF Live(f) THEN {g \in WithChildren({f}) : Live(g)} ELSE {}]
    /\ UNCHANGED <<store, fresh, history>>

(* updateMany changes one document at a time. *)
RevokeDoc(r) ==
    /\ At(r, "revokeDocs")
    /\ \E f \in op[r].docs :
         /\ fam' = [fam EXCEPT ![f].state = "revoked"]
         /\ op' = [op EXCEPT ![r].docs = @ \ {f},
                             ![r].pc = IF op[r].docs = {f} THEN "revoke" ELSE @]
    /\ UNCHANGED <<doc, linked, marked, fresh, history>>

(* What it found and revoked stays so (RevocationIsFinal) and needs no note. *)
Revoked(r) ==
    /\ At(r, "revoke")
    /\ op[r].todo = {}
    /\ barred' = barred \cup {f \in op[r].covers : fam[f].state # "revoked"}
    /\ End(r)
    /\ UNCHANGED <<store, fresh, known, answered>>

-----------------------------------------------------------------------------
Fail(r) ==
    /\ ~At(r, "idle")
    /\ End(r)
    /\ UNCHANGED <<store, fresh, history>>

(* Nobody looks at the window of a revoked family. *)
CloseRetryWindow(f) ==
    /\ Live(f) /\ fam[f].retry
    /\ fam' = [fam EXCEPT ![f].retry = FALSE]
    /\ UNCHANGED <<doc, linked, marked, op, fresh, history>>

(* Every legacy token is with its client, its family does not exist yet. *)
Init ==
    /\ fam = [f \in Family |-> NoFam]
    /\ \E family \in [LegacyToken -> Legacy] :
         /\ \A f \in Legacy : \E t \in LegacyToken : family[t] = f
         /\ doc = [t \in Token |-> IF t \in LegacyToken THEN family[t] ELSE NoFamily]
    /\ linked = {} /\ marked = {}
    /\ op = [r \in Req |-> IdleOp]
    /\ fresh = Cardinality(Legacy) + 1
    /\ known = LegacyToken
    /\ answered = {} /\ barred = {}

Step(r) ==
    \/ CheckParent(r) \/ Create(r) \/ Persist(r) \/ Upgrade(r) \/ Link(r)
    \/ FirstValidate(r) \/ Candidate(r) \/ RotateRead(r) \/ Rotate(r) \/ LostRead(r)
    \/ Settle(r) \/ FinalValidate(r) \/ Answer(r)
    \/ SweepUser(r) \/ RevokeRead(r) \/ RevokeDoc(r) \/ Revoked(r)

Next ==
    \/ \E r \in Req :
         \/ Step(r) \/ Fail(r)
         \/ \E f \in Family : Open(r, f) \/ RevokeOne(r, f) \/ RevokeOthers(r, f)
         \/ \E t \in known : Refresh(r, t) \/ RevokeToken(r, t)
         \/ \E u \in User : MarkUser(r, u)
    \/ \E f \in Family : CloseRetryWindow(f)

Spec == Init /\ [][Next]_vars

-----------------------------------------------------------------------------
(* Properties *)

PCs == {"idle", "parent", "create", "persist", "upgrade", "link", "validate", "candidate",
        "rotate", "swap", "lost", "settle", "final", "answer", "sweep", "revoke", "revokeDocs"}

FamilyDoc == [state : {"none", "live", "revoked"}, cur : Token \cup {NoToken},
              prev : Token \cup {NoToken}, retry : BOOLEAN]

Request ==
    [pc : PCs, f : Family \cup {NoFamily}, tok : Token \cup {NoToken},
     new : Token \cup {NoToken}, ans : Token \cup {NoToken}, seen : FamilyDoc, ret : PCs,
     todo : SUBSET Family, docs : SUBSET Family, covers : SUBSET Family, late : BOOLEAN]

(* Types; a document refers only to documents that exist: a linked legacy   *)
(* token to its session, a session to the token it accepts.                 *)
TypeOK ==
    /\ fam \in [Family -> FamilyDoc]
    /\ doc \in [Token -> Family \cup {NoFamily}]
    /\ linked \subseteq Legacy /\ marked \subseteq Legacy
    /\ op \in [Req -> Request]
    /\ fresh \in Nat
    /\ known \subseteq Token /\ answered \subseteq Token \X Token /\ barred \subseteq Family
    /\ \A f \in linked : fam[f].state # "none"
    /\ \A f \in Family : fam[f].state # "none" <=> fam[f].cur # NoToken

(* No refresh is answered whose last look at its family came after a        *)
(* revocation of that family, of its parent or of all of its account had    *)
(* finished, whatever the refresh had done before: not by an upgrade that   *)
(* creates the session of a legacy token late, nor by a child that is       *)
(* opened while its parent is revoked.                                      *)
NoAnswerAfterRevocation == \A r \in Req : At(r, "answer") => ~op[r].late

(* Refreshes of the same token, however they race, crash and are repeated,  *)
(* agree: each is answered with the token itself or with its one successor, *)
(* so a family never forks.                                                 *)
OneSuccessor ==
    \A x, y \in answered : x[1] = y[1] /\ x[1] \notin {x[2], y[2]} => x[2] = y[2]

(* A token that a client was sent can be presented again, even if the retry *)
(* window closes while its request is under way: its document is there, and *)
(* names the family of the token it was the answer to.                      *)
SentTokensArePersisted ==
    /\ \A t \in known : doc[t] # NoFamily
    /\ \A x \in answered : doc[x[1]] = doc[x[2]]

(* A revocation is final: no swap, upgrade or login that was under way      *)
(* changes or revives the session afterwards.                               *)
RevocationIsFinal ==
    [][\A f \in Family : fam[f].state = "revoked" =>
          fam'[f].state = "revoked" /\ fam'[f].cur = fam[f].cur]_vars
=============================================================================
