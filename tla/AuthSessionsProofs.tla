------------------------- MODULE AuthSessionsProofs -------------------------
(***************************************************************************)
(* Proofs about AuthSessions, for any number of families, accounts, tokens *)
(* and requests, in three layers: which family each token is about, that   *)
(* the tokens of a family follow each other without a fork, and that what  *)
(* a revocation has ended stays closed.                                    *)
(***************************************************************************)
EXTENDS AuthSessions, FiniteSetTheorems, TLAPS

(* Where a request is, also while it looks at the parent of its session. *)
Stage(o) == IF o.pc = "parent" THEN o.ret ELSE o.pc

Opening == {"create", "persist"}
Upgrading == {"upgrade", "link"}
Refreshing == {"validate", "candidate", "rotate", "swap", "lost", "settle", "final", "answer"}
Holding == {"rotate", "swap"}
Seeing == {"swap", "settle"}
Answering == {"final", "answer"}

Exists(f) == fam[f].state # "none"

(* What a request knows of its tokens. *)
Good(o) ==
    /\ o.pc = "parent" => o.ret \in {"candidate", "swap", "settle", "answer"}
    /\ o.pc \in Opening =>
         /\ o.f \in Family \ Legacy /\ o.tok \in Token /\ o.tok < fresh
         /\ doc[o.tok] = NoFamily
         /\ \A t \in Token : doc[t] # o.f
         /\ \A g \in Family : fam[g].cur = o.tok => g = o.f
    /\ o.pc = "create" => ~Exists(o.f)
    /\ o.pc = "persist" => fam[o.f].cur = o.tok
    /\ Stage(o) \in Upgrading \cup Refreshing =>
         o.f \in Family /\ o.tok \in Token /\ doc[o.tok] = o.f
    /\ o.pc \in Upgrading => o.f \in Legacy
    /\ o.pc = "link" \/ Stage(o) \in Refreshing \ {"validate"} => Exists(o.f)
    /\ Stage(o) \in Holding => o.new \in Token /\ o.new < fresh /\ doc[o.new] = o.f
    /\ Stage(o) \in Seeing => o.seen.cur \in Token /\ doc[o.seen.cur] = o.f
    /\ Stage(o) \in Answering => o.ans \in Token /\ doc[o.ans] = o.f
    /\ \A f \in o.docs : Exists(f)

Documents ==
    /\ fresh >= 1
    /\ \A t \in Token : t >= fresh => doc[t] = NoFamily
    /\ \A t \in Token : doc[t] \in Family \ Legacy => Exists(doc[t])
    /\ \A f \in Family : fam[f].cur < fresh
    /\ \A f \in Family : Exists(f) => doc[fam[f].cur] \in {f, NoFamily}
    /\ \A f \in Family, t \in Token : Exists(f) /\ doc[t] = f => doc[fam[f].cur] = f
    /\ \A t \in known : doc[t] # NoFamily
    /\ \A x \in answered : doc[x[1]] = doc[x[2]] /\ doc[x[1]] # NoFamily

(* Two logins under way open different families with different tokens. *)
Apart ==
    \A r, q \in Req : r # q /\ op[r].pc \in Opening /\ op[q].pc \in Opening =>
        op[r].f # op[q].f /\ op[r].tok # op[q].tok

Naming == TypeOK /\ Documents /\ Apart /\ \A r \in Req : Good(op[r])

(* Token c has followed token p, as far as anybody can still see. *)
Succ(p, c) ==
    /\ p # NoToken
    /\ \/ \E f \in Family : fam[f].prev = p /\ fam[f].cur = c
       \/ \E r \in Req : Stage(op[r]) \in Seeing /\ op[r].seen.prev = p /\ op[r].seen.cur = c
       \/ \E r \in Req : Stage(op[r]) \in Answering /\ op[r].tok = p /\ op[r].ans = c /\ p # c
       \/ <<p, c>> \in answered /\ p # c

(* A token has one successor, and is current no more; a replacement that is *)
(* not yet in use has none, and belongs to one request.                     *)
Succession ==
    /\ \A p, c, d \in Token : Succ(p, c) /\ Succ(p, d) => c = d
    /\ \A p, c \in Token : Succ(p, c) =>
         /\ doc[p] \in Family /\ Exists(doc[p])
         /\ \A f \in Family : fam[f].cur # p
         /\ \A r \in Req : Stage(op[r]) \in Holding => op[r].new # p
    /\ \A r \in Req : Stage(op[r]) \in Holding => \A f \in Family : fam[f].cur # op[r].new
    /\ \A r, q \in Req : r # q /\ Stage(op[r]) \in Holding /\ Stage(op[q]) \in Holding =>
         op[r].new # op[q].new

(* No session of the family is ever live and linked again. *)
Over(f) == fam[f].state = "revoked" \/ f \in marked \ linked
Ended(f) == Over(f) \/ (Parent[f] \in Family /\ Over(Parent[f]))

InWork(o, f) == f \in o.todo \/ f \in o.docs

Revoking(o) ==
    /\ o.pc = "sweep" => o.covers \subseteq o.todo \cap marked
    /\ o.pc \in {"sweep", "revoke"} => o.docs = {}
    /\ o.pc \in {"revoke", "revokeDocs"} =>
         /\ \A f \in o.todo : Exists(f) \/ f \in marked
         /\ \A f \in o.covers : \/ Ended(f) \/ InWork(o, f)
                                \/ Parent[f] \in Family /\ InWork(o, Parent[f])

Linked(o) ==
    /\ Stage(o) \in Refreshing /\ o.f \in Legacy => o.f \in linked
    /\ o.pc \in Opening /\ Parent[o.f] \in Legacy => Parent[o.f] \in linked
    /\ Stage(o) = "answer" /\ o.late =>
         o.pc = "parent" /\ Parent[o.f] \in Family /\ fam[Parent[o.f]].state = "revoked"

Closure ==
    /\ \A t \in Token \ LegacyToken : doc[t] \in Family => Exists(doc[t])
    /\ \A f \in barred : Ended(f)
    /\ \A x \in answered : doc[x[1]] \in Legacy => doc[x[1]] \in linked
    /\ \A f \in Family : Exists(f) /\ Parent[f] \in Legacy => Parent[f] \in linked
    /\ \A r \in Req : Revoking(op[r]) /\ Linked(op[r])

IInv == Naming /\ Succession /\ Closure

(* What no step takes back. *)
Grows ==
    /\ \A f \in Family : Exists(f) => Exists(f)'
    /\ \A f \in Family : fam[f].state = "revoked" =>
                           fam'[f].state = "revoked" /\ fam'[f].cur = fam[f].cur
    /\ \A t \in Token : doc[t] # NoFamily => doc'[t] = doc[t]

-----------------------------------------------------------------------------
(* Naming: types, and which family a token is about *)

LEMMA Basics ==
    ASSUME TypeOK
    PROVE  /\ NoFamily \notin Family /\ NoToken \notin Token /\ Token \subseteq Nat
           /\ \A r \in Req : op[r] \in Request
           /\ \A f \in Family : fam[f] \in FamilyDoc /\ (Exists(f) <=> fam[f].cur # NoToken)
           /\ \A f \in Family : fam[f].cur \in Nat
           /\ \A t \in Token : doc[t] \in Family \cup {NoFamily}
BY ConstantsAssumption DEF TypeOK, Token, NoToken, Exists, FamilyDoc

LEMMA IdleType == IdleOp \in Request /\ NoFam \in FamilyDoc
BY DEF IdleOp, Request, PCs, FamilyDoc, NoFam

LEMMA IdleGood == Good(IdleOp) /\ Good(IdleOp)'
BY DEF IdleOp, Good, Stage, Opening, Upgrading, Refreshing, Holding, Seeing, Answering

LEMMA ChildrenType == ASSUME NEW S \in SUBSET Family PROVE WithChildren(S) \in SUBSET Family
BY DEF WithChildren

(* A request that takes no step keeps what it knows. *)
LEMMA OtherGood ==
    ASSUME Naming, Grows, NEW q \in Req, op'[q] = op[q],
           fresh \in Nat, fresh' \in Nat, fresh' >= fresh,
           op[q].pc \in Opening =>
             /\ doc'[op[q].tok] = NoFamily
             /\ \A t \in Token : doc'[t] # op[q].f
             /\ \A g \in Family : fam'[g].cur = op[q].tok => fam[g].cur = op[q].tok
             /\ fam'[op[q].f].cur = fam[op[q].f].cur
             /\ Exists(op[q].f)' => Exists(op[q].f)
    PROVE  Good(op[q])'
<1> DEFINE o == op[q]
<1>1. o \in Request /\ Good(o) /\ op'[q] = o BY Basics DEF Naming
<1>2. Token \subseteq Nat /\ NoFamily \notin Family BY Basics DEF Naming
<1>3. \A x \in Token : doc[x] = o.f /\ o.f \in Family => doc'[x] = o.f
  BY <1>2 DEF Grows
<1>4. \A f \in Family : Exists(f) => Exists(f)' BY DEF Grows
<1>5. /\ Stage(o) \in Holding \cup Seeing \cup Answering => Stage(o) \in Refreshing
      /\ o.pc \in Upgrading => Stage(o) \in Upgrading
      /\ o.pc \in Opening => Stage(o) \notin Upgrading \cup Refreshing
      /\ o.pc \in Upgrading => o.pc \notin Opening
      /\ o.pc = "create" \/ o.pc = "persist" <=> o.pc \in Opening
      /\ o.pc = "link" => o.pc \in Upgrading
  BY DEF Stage, Opening, Upgrading, Refreshing, Holding, Seeing, Answering
<1>6. Stage(op[q])' = Stage(o) BY <1>1 DEF Stage
<1>7. o.pc \in Opening =>
        /\ doc'[o.tok] = NoFamily
        /\ \A t \in Token : doc'[t] # o.f
        /\ \A g \in Family : fam'[g].cur = o.tok => g = o.f
        /\ o.f \in Family \ Legacy /\ o.tok \in Token /\ o.tok < fresh'
  BY <1>1, <1>2 DEF Good
<1>8. /\ o.pc = "create" => ~Exists(o.f)'
      /\ o.pc = "persist" => fam'[o.f].cur = o.tok
  BY <1>1, <1>5 DEF Good, Exists
<1>9. Stage(o) \in Upgrading \cup Refreshing =>
        o.f \in Family /\ o.tok \in Token /\ doc'[o.tok] = o.f
  BY <1>1, <1>3 DEF Good
<1>10. /\ o.pc \in Upgrading => o.f \in Legacy
       /\ o.pc = "link" \/ Stage(o) \in Refreshing \ {"validate"} => Exists(o.f)'
       /\ o.pc = "parent" => o.ret \in {"candidate", "swap", "settle", "answer"}
  BY <1>1, <1>4, <1>5 DEF Good
<1>11. Stage(o) \in Holding => o.new \in Token /\ o.new < fresh' /\ doc'[o.new] = o.f
  <2> SUFFICES ASSUME Stage(o) \in Holding PROVE o.new \in Token /\ o.new < fresh' /\ doc'[o.new] = o.f
    OBVIOUS
  <2>1. o.new \in Token /\ o.new < fresh /\ doc[o.new] = o.f /\ o.f \in Family
    BY <1>1, <1>5 DEF Good
  <2>2. doc'[o.new] = o.f BY <2>1, <1>3
  <2>3. \A n \in Nat : n < fresh => n < fresh' OBVIOUS
  <2> QED BY <2>1, <2>2, <2>3, <1>2
<1>12. /\ Stage(o) \in Seeing => o.seen.cur \in Token /\ doc'[o.seen.cur] = o.f
       /\ Stage(o) \in Answering => o.ans \in Token /\ doc'[o.ans] = o.f
  BY <1>1, <1>3, <1>5 DEF Good
<1>13. \A f \in o.docs : Exists(f)'
  BY <1>1, <1>4 DEF Good, Request
<1> QED BY <1>1, <1>6, <1>7, <1>8, <1>9, <1>10, <1>11, <1>12, <1>13 DEF Good

(* A step of one request that leaves the documents as they are. *)
LEMMA MoveNaming ==
    ASSUME Naming, NEW r \in Req, NEW o \in Request, op' = [op EXCEPT ![r] = o],
           UNCHANGED <<fam, doc, fresh>>, Good(o), o.pc \notin Opening,
           linked' \subseteq Legacy, \A f \in linked' : Exists(f), marked' \subseteq Legacy,
           known' \subseteq Token, \A t \in known' : doc[t] # NoFamily,
           answered' \subseteq Token \X Token,
           \A x \in answered' : doc[x[1]] = doc[x[2]] /\ doc[x[1]] # NoFamily,
           barred' \subseteq Family
    PROVE  Naming' /\ Grows
<1>1. Grows BY DEF Grows, Exists
<1>2. TypeOK' BY DEF Naming, TypeOK, Exists
<1>3. Documents' BY DEF Naming, Documents, Exists
<1>4. op \in [Req -> Request] BY DEF Naming, TypeOK
<1>5. Apart' BY <1>4 DEF Naming, Apart
<1>6. ASSUME NEW q \in Req PROVE Good(op[q])'
  <2>1. CASE q = r
    <3>1. op'[q] = o BY <1>4, <2>1
    <3> QED BY <3>1 DEF Good, Exists
  <2>2. CASE q # r
    <3>1. op'[q] = op[q] /\ Good(op[q]) BY <1>4, <2>2 DEF Naming
    <3> QED BY <3>1 DEF Good, Exists
  <2> QED BY <2>1, <2>2
<1> QED BY <1>1, <1>2, <1>3, <1>5, <1>6 DEF Naming

LEMMA StayNaming ==
    ASSUME Naming, NEW r \in Req, NEW o \in Request, op' = [op EXCEPT ![r] = o],
           UNCHANGED <<store, fresh, known, answered>>, barred' \subseteq Family,
           Good(o), o.pc \notin Opening
    PROVE  Naming' /\ Grows
<1>1. /\ linked \subseteq Legacy /\ \A f \in linked : Exists(f)
      /\ marked \subseteq Legacy /\ known \subseteq Token /\ answered \subseteq Token \X Token
      /\ \A t \in known : doc[t] # NoFamily
      /\ \A x \in answered : doc[x[1]] = doc[x[2]] /\ doc[x[1]] # NoFamily
  BY DEF Naming, TypeOK, Documents, Exists
<1> QED BY <1>1, MoveNaming DEF store

LEMMA EndNaming ==
    ASSUME Naming, NEW r \in Req, End(r), UNCHANGED <<store, fresh, known, answered>>,
           barred' \subseteq Family
    PROVE  Naming' /\ Grows
<1>1. IdleOp.pc \notin Opening BY DEF IdleOp, Opening
<1> QED BY <1>1, IdleType, IdleGood, StayNaming DEF End

(* A revocation knows nothing of tokens. *)
LEMMA SweepGood ==
    ASSUME NEW o \in Request, o.pc \in {"sweep", "revoke"} \/ o.pc = "revokeDocs",
           \A f \in o.docs : Exists(f)
    PROVE  Good(o) /\ o.pc \notin Opening
BY DEF Good, Stage, Opening, Upgrading, Refreshing, Holding, Seeing, Answering

LEMMA RevokeGood ==
    ASSUME NEW S \in SUBSET Family
    PROVE  LET o == [IdleOp EXCEPT !.pc = "revoke", !.todo = S, !.covers = WithChildren(S)]
           IN  o \in Request /\ Good(o) /\ o.pc \notin Opening
<1> DEFINE o == [IdleOp EXCEPT !.pc = "revoke", !.todo = S, !.covers = WithChildren(S)]
<1>1. o \in Request /\ o.pc = "revoke" /\ o.docs = {}
  BY IdleType, ChildrenType DEF Request, IdleOp, PCs
<1> QED BY <1>1, SweepGood

LEMMA RevokeNaming ==
    ASSUME Naming, NEW r \in Req, NEW S \in SUBSET Family, RevokeAll(r, S),
           UNCHANGED <<store, fresh, known, answered>>, barred' \subseteq Family
    PROVE  Naming' /\ Grows
BY RevokeGood, StayNaming DEF RevokeAll

LEMMA ValidateNaming ==
    ASSUME Naming, NEW r \in Req, NEW then \in {"candidate", "swap", "settle", "answer"},
           Validate(r, op[r].f, then), UNCHANGED <<store, fresh, history>>,
           op[r].pc \in Refreshing,
           then = "swap" => op[r].pc \in Holding,
           then = "answer" => op[r].pc \in Answering
    PROVE  Naming' /\ Grows
<1> DEFINE f == op[r].f
           seen == IF then \in {"swap", "settle"} THEN fam[f] ELSE NoFam
           late == f \in barred /\ then = "answer"
           ret == IF Parent[f] = NoFamily THEN "idle" ELSE then
           pc == IF Parent[f] = NoFamily THEN then ELSE "parent"
           o == [op[r] EXCEPT !.seen = seen, !.late = late, !.ret = ret, !.pc = pc]
<1>1. barred \subseteq Family /\ op \in [Req -> Request] BY DEF Naming, TypeOK
<1>2. CASE End(r) BY <1>1, <1>2, EndNaming DEF history
<1>3. CASE Live(f) /\ op' = [op EXCEPT ![r] = o]
  <2>1. f \in Family /\ op[r] \in Request /\ fam[f] \in FamilyDoc /\ Exists(f) /\ fam[f].cur \in Token
    BY <1>1, <1>3, Basics DEF Live, Exists, Naming, FamilyDoc
  <2>2. o \in Request
    <3>1. seen \in FamilyDoc /\ late \in BOOLEAN /\ ret \in PCs /\ pc \in PCs
      BY <2>1, IdleType DEF PCs
    <3> HIDE DEF seen, late, ret, pc
    <3> QED BY <2>1, <3>1 DEF Request
  <2>3. Stage(op[r]) = op[r].pc BY DEF Stage, Refreshing
  <2>4. /\ o.f = f /\ o.tok = op[r].tok /\ o.new = op[r].new /\ o.ans = op[r].ans
        /\ o.docs = op[r].docs /\ o.seen = IF then \in {"swap", "settle"} THEN fam[f] ELSE NoFam
        /\ Stage(o) = then /\ o.pc \in {then, "parent"} /\ (o.pc = "parent" => o.ret = then)
    BY <2>1 DEF Stage, Request
  <2>5. Good(op[r]) BY DEF Naming
  <2> HIDE DEF o
  <2>6. doc[fam[f].cur] = f /\ op[r].tok \in Token /\ doc[op[r].tok] = f
    BY <2>1, <2>3, <2>5 DEF Good, Naming, Documents
  <2>7. then = "swap" => o.new \in Token /\ o.new < fresh /\ doc[o.new] = f
    BY <2>3, <2>4, <2>5 DEF Good
  <2>8. then = "answer" => o.ans \in Token /\ doc[o.ans] = f
    BY <2>3, <2>4, <2>5 DEF Good
  <2>9. /\ o.pc \notin Opening /\ o.pc \notin Upgrading /\ o.pc # "link"
        /\ Stage(o) \in Holding => then = "swap"
        /\ Stage(o) \in Answering => then = "answer"
        /\ Stage(o) \in Seeing => o.seen = fam[f]
    BY <2>4 DEF Opening, Upgrading, Holding, Answering, Seeing
  <2>10. Good(o)
    BY <2>1, <2>4, <2>5, <2>6, <2>7, <2>8, <2>9 DEF Good, Opening
  <2> QED BY <1>1, <1>3, <2>2, <2>9, <2>10, StayNaming DEF history
<1>4. End(r) \/ (Live(f) /\ op' = [op EXCEPT ![r] = o])
  BY <1>1 DEF Validate
<1> QED BY <1>2, <1>3, <1>4

LEMMA CheckParentNaming ==
    ASSUME Naming, NEW r \in Req, CheckParent(r)
    PROVE  Naming' /\ Grows
<1> DEFINE o == [op[r] EXCEPT !.pc = op[r].ret, !.ret = "idle"]
<1>1. op \in [Req -> Request] /\ barred \subseteq Family /\ Good(op[r]) /\ op[r].pc = "parent"
  BY DEF Naming, TypeOK, CheckParent, At
<1>2. UNCHANGED <<store, fresh, known, answered, barred>> BY DEF CheckParent, history
<1>3. CASE End(r) BY <1>1, <1>2, <1>3, EndNaming
<1>4. CASE op' = [op EXCEPT ![r] = o]
  <2>1. op[r] \in Request /\ op[r].ret \in {"candidate", "swap", "settle", "answer"}
    BY <1>1 DEF Good
  <2>2. o \in Request BY <2>1 DEF Request, PCs
  <2>3. /\ o.pc = op[r].ret /\ Stage(o) = Stage(op[r]) /\ o.f = op[r].f /\ o.tok = op[r].tok
        /\ o.new = op[r].new /\ o.ans = op[r].ans /\ o.docs = op[r].docs /\ o.seen = op[r].seen
    BY <1>1, <2>1 DEF Stage, Request
  <2> HIDE DEF o
  <2>4. /\ o.pc # "parent" /\ o.pc \notin Opening /\ o.pc \notin Upgrading /\ o.pc # "link"
        /\ o.pc # "create" /\ o.pc # "persist"
    BY <2>1, <2>3 DEF Opening, Upgrading
  <2>5. Good(o) BY <1>1, <2>3, <2>4 DEF Good
  <2> QED BY <1>1, <1>2, <1>4, <2>2, <2>4, <2>5, StayNaming
<1>5. End(r) \/ op' = [op EXCEPT ![r] = o] BY <1>1 DEF CheckParent
<1> QED BY <1>3, <1>4, <1>5

LEMMA RefreshNaming ==
    ASSUME Naming, NEW r \in Req, NEW t \in known, Refresh(r, t)
    PROVE  Naming' /\ Grows
<1> DEFINE o == [IdleOp EXCEPT !.f = doc[t], !.tok = t,
                   !.pc = IF doc[t] \in Legacy \ linked THEN "upgrade" ELSE "validate"]
<1>1. t \in Token /\ doc[t] \in Family /\ barred \subseteq Family
  BY Basics DEF Naming, TypeOK, Documents
<1>2. o \in Request BY <1>1, IdleType DEF Request, PCs
<1>3. /\ o.f = doc[t] /\ o.tok = t /\ o.docs = {} /\ o.pc \in {"upgrade", "validate"}
      /\ o.pc = "upgrade" => doc[t] \in Legacy
  BY IdleType DEF IdleOp
<1>4. op' = [op EXCEPT ![r] = o] /\ UNCHANGED <<store, fresh, history>> BY DEF Refresh
<1> HIDE DEF o
<1>5. Good(o) /\ o.pc \notin Opening
  BY <1>1, <1>3 DEF Good, Stage, Opening, Upgrading, Refreshing, Holding, Seeing, Answering
<1> QED BY <1>1, <1>2, <1>4, <1>5, StayNaming DEF history

LEMMA LinkNaming == ASSUME Naming, NEW r \in Req, Link(r) PROVE Naming' /\ Grows
<1> DEFINE o == [op[r] EXCEPT !.pc = "validate"]
<1>1. /\ op[r] \in Request /\ op[r].pc = "link" /\ Good(op[r])
      /\ UNCHANGED <<fam, doc, marked, fresh, known, answered, barred>>
  BY Basics DEF Naming, Link, At, history
<1>2. /\ op[r].f \in Legacy /\ op[r].f \in Family /\ Exists(op[r].f) /\ op[r].tok \in Token
      /\ doc[op[r].tok] = op[r].f
  BY <1>1 DEF Good, Stage, Upgrading
<1>3. /\ linked \subseteq Legacy /\ \A f \in linked : Exists(f)
      /\ marked \subseteq Legacy /\ known \subseteq Token /\ answered \subseteq Token \X Token
      /\ barred \subseteq Family /\ \A t \in known : doc[t] # NoFamily
      /\ \A x \in answered : doc[x[1]] = doc[x[2]] /\ doc[x[1]] # NoFamily
  BY DEF Naming, TypeOK, Documents, Exists
<1>4. CASE RevokeAll(r, {op[r].f}) /\ UNCHANGED linked
  BY <1>1, <1>2, <1>3, <1>4, RevokeNaming DEF store
<1>5. CASE linked' = linked \cup {op[r].f} /\ op' = [op EXCEPT ![r].pc = "validate"]
  <2>1. o \in Request BY <1>1 DEF Request, PCs
  <2>2. o.f = op[r].f /\ o.tok = op[r].tok /\ o.docs = op[r].docs /\ o.pc = "validate"
    BY <1>1 DEF Request
  <2>3. op' = [op EXCEPT ![r] = o] BY <1>5
  <2> HIDE DEF o
  <2>4. Good(o) /\ o.pc \notin Opening
    BY <1>1, <1>2, <2>2 DEF Good, Stage, Opening, Upgrading, Refreshing, Holding, Seeing, Answering
  <2> QED BY <1>1, <1>2, <1>3, <1>5, <2>1, <2>3, <2>4, MoveNaming
<1> QED BY <1>4, <1>5 DEF Link

LEMMA AnswerWithNaming ==
    ASSUME Naming, NEW r \in Req, NEW t \in Token, op[r].pc \in {"swap", "settle"},
           doc[t] = op[r].f, AnswerWith(r, t), UNCHANGED <<store, fresh, history>>
    PROVE  Naming' /\ Grows
<1> DEFINE o == [IdleOp EXCEPT !.pc = "final", !.f = op[r].f, !.tok = op[r].tok, !.ans = t]
<1>1. op[r] \in Request /\ Good(op[r]) /\ barred \subseteq Family
  BY Basics DEF Naming, TypeOK
<1>2. op[r].f \in Family /\ op[r].tok \in Token /\ doc[op[r].tok] = op[r].f /\ Exists(op[r].f)
  BY <1>1 DEF Good, Stage, Refreshing
<1>3. o \in Request BY <1>1, <1>2, IdleType DEF Request, PCs
<1>4. /\ o.pc = "final" /\ o.f = op[r].f /\ o.tok = op[r].tok /\ o.ans = t /\ o.docs = {}
      /\ op' = [op EXCEPT ![r] = o]
  BY DEF IdleOp, AnswerWith
<1> HIDE DEF o
<1>5. Good(o) /\ o.pc \notin Opening
  BY <1>2, <1>4 DEF Good, Stage, Opening, Upgrading, Refreshing, Holding, Seeing, Answering
<1> QED BY <1>1, <1>3, <1>4, <1>5, StayNaming DEF history

LEMMA SettleNaming == ASSUME Naming, NEW r \in Req, Settle(r) PROVE Naming' /\ Grows
<1>1. /\ op[r].pc = "settle" /\ Good(op[r]) /\ barred \subseteq Family
      /\ UNCHANGED <<store, fresh, known, answered, barred>>
  BY DEF Naming, TypeOK, Settle, At, history
<1>2. op[r].seen.cur \in Token /\ doc[op[r].seen.cur] = op[r].f
  BY <1>1 DEF Good, Stage, Seeing
<1>3. End(r) \/ AnswerWith(r, op[r].seen.cur) BY DEF Settle
<1> QED BY <1>1, <1>2, <1>3, EndNaming, AnswerWithNaming DEF history

LEMMA AnswerNaming == ASSUME Naming, NEW r \in Req, Answer(r) PROVE Naming' /\ Grows
<1>1. /\ op[r].pc = "answer" /\ Good(op[r]) /\ UNCHANGED <<store, fresh, barred>>
      /\ known' = known \cup {op[r].ans} /\ answered' = answered \cup {<<op[r].tok, op[r].ans>>}
      /\ op' = [op EXCEPT ![r] = IdleOp]
  BY DEF Naming, Answer, At, End
<1>2. /\ op[r].ans \in Token /\ doc[op[r].ans] = op[r].f /\ op[r].f \in Family
      /\ op[r].tok \in Token /\ doc[op[r].tok] = op[r].f
  BY <1>1 DEF Good, Stage, Refreshing, Answering
<1>3. /\ linked \subseteq Legacy /\ \A f \in linked : Exists(f)
      /\ marked \subseteq Legacy /\ known \subseteq Token /\ answered \subseteq Token \X Token
      /\ barred \subseteq Family /\ \A t \in known : doc[t] # NoFamily
      /\ \A x \in answered : doc[x[1]] = doc[x[2]] /\ doc[x[1]] # NoFamily
  BY DEF Naming, TypeOK, Documents, Exists
<1>4. IdleOp.pc \notin Opening /\ NoFamily \notin Family BY ConstantsAssumption DEF IdleOp, Opening
<1>5. /\ known' \subseteq Token /\ \A t \in known' : doc[t] # NoFamily
      /\ answered' \subseteq Token \X Token
      /\ \A x \in answered' : doc[x[1]] = doc[x[2]] /\ doc[x[1]] # NoFamily
  BY <1>1, <1>2, <1>3, <1>4
<1> QED BY <1>1, <1>3, <1>4, <1>5, IdleType, IdleGood, MoveNaming DEF store

LEMMA RevocationNaming ==
    ASSUME Naming, NEW r \in Req, NEW f \in Family, RevokeOne(r, f) \/ RevokeOthers(r, f)
    PROVE  Naming' /\ Grows
<1>1. barred \subseteq Family BY DEF Naming, TypeOK
<1>2. CASE RevokeOne(r, f)
  BY <1>1, <1>2, RevokeNaming DEF RevokeOne, history
<1>3. CASE RevokeOthers(r, f)
  <2> DEFINE S == {g \in Family \ {f} : Live(g) /\ Owner[g] = Owner[f] /\ Parent[g] = NoFamily}
  <2>1. S \in SUBSET Family /\ RevokeAll(r, S) /\ UNCHANGED <<store, fresh, history>>
    BY <1>3 DEF RevokeOthers
  <2> HIDE DEF S
  <2> QED BY <1>1, <2>1, RevokeNaming DEF history
<1> QED BY <1>2, <1>3

LEMMA RevokeTokenNaming ==
    ASSUME Naming, NEW r \in Req, NEW t \in known, RevokeToken(r, t)
    PROVE  Naming' /\ Grows
<1> DEFINE S == {doc[t]}
           o == [IdleOp EXCEPT !.pc = "revoke", !.todo = S, !.covers = WithChildren(S)]
<1>1. /\ linked \subseteq Legacy /\ \A g \in linked : Exists(g)
      /\ marked \subseteq Legacy /\ known \subseteq Token /\ answered \subseteq Token \X Token
      /\ barred \subseteq Family /\ \A u \in known : doc[u] # NoFamily
      /\ \A x \in answered : doc[x[1]] = doc[x[2]] /\ doc[x[1]] # NoFamily
      /\ doc[t] \in Family
  BY Basics DEF Naming, TypeOK, Documents, Exists
<1>2. o \in Request /\ Good(o) /\ o.pc \notin Opening BY <1>1, RevokeGood
<1>3. /\ op' = [op EXCEPT ![r] = o] /\ marked' \subseteq Legacy
      /\ UNCHANGED <<fam, doc, linked, fresh, history>>
  BY <1>1 DEF RevokeToken, RevokeAll
<1> HIDE DEF o
<1> QED BY <1>1, <1>2, <1>3, MoveNaming DEF history

LEMMA MarkNaming == ASSUME Naming, NEW r \in Req, NEW u \in User, MarkUser(r, u) PROVE Naming' /\ Grows
<1> DEFINE owned == {f \in Legacy : Owner[f] = u}
           all == {f \in Family : Owner[f] = u}
           o == [IdleOp EXCEPT !.pc = "sweep", !.covers = owned, !.todo = all]
<1>1. /\ linked \subseteq Legacy /\ \A g \in linked : Exists(g)
      /\ marked \subseteq Legacy /\ known \subseteq Token /\ answered \subseteq Token \X Token
      /\ barred \subseteq Family /\ \A t \in known : doc[t] # NoFamily
      /\ \A x \in answered : doc[x[1]] = doc[x[2]] /\ doc[x[1]] # NoFamily
  BY DEF Naming, TypeOK, Documents, Exists
<1>2. owned \subseteq Family /\ owned \subseteq Legacy /\ all \subseteq Family
  BY ConstantsAssumption
<1>3. /\ op' = [op EXCEPT ![r] = o] /\ marked' = marked \cup owned
      /\ UNCHANGED <<fam, doc, linked, fresh, history>>
  BY DEF MarkUser
<1> HIDE DEF owned, all
<1>4. o \in Request /\ o.pc = "sweep" /\ o.docs = {}
  BY <1>2, IdleType DEF Request, IdleOp, PCs
<1> HIDE DEF o
<1>5. Good(o) /\ o.pc \notin Opening BY <1>4, SweepGood
<1> QED BY <1>1, <1>2, <1>3, <1>4, <1>5, MoveNaming DEF history

LEMMA SweepNaming == ASSUME Naming, NEW r \in Req, SweepUser(r) PROVE Naming' /\ Grows
<1> DEFINE families == {f \in op[r].todo : Live(f)}
           o == [op[r] EXCEPT !.pc = "revoke", !.todo = families,
                              !.covers = op[r].covers \cup WithChildren(families)]
<1>1. op \in [Req -> Request] /\ op[r] \in Request /\ Good(op[r]) /\ barred \subseteq Family /\ op[r].pc = "sweep"
  BY Basics DEF Naming, TypeOK, SweepUser, At
<1>2. families \in SUBSET Family /\ op[r].covers \subseteq Family BY <1>1 DEF Request
<1>3. WithChildren(families) \in SUBSET Family BY <1>2, ChildrenType
<1>4. op' = [op EXCEPT ![r] = o] /\ UNCHANGED <<store, fresh, history>>
  BY <1>1 DEF SweepUser
<1> HIDE DEF families
<1>5. o \in Request /\ o.pc = "revoke" /\ o.docs = op[r].docs
  BY <1>1, <1>2, <1>3 DEF Request, PCs
<1> HIDE DEF o
<1>6. Good(o) /\ o.pc \notin Opening BY <1>1, <1>5, SweepGood DEF Good
<1> QED BY <1>1, <1>4, <1>5, <1>6, StayNaming DEF history

LEMMA RevokeReadNaming == ASSUME Naming, NEW r \in Req, RevokeRead(r) PROVE Naming' /\ Grows
<1>1. op[r] \in Request /\ Good(op[r]) /\ barred \subseteq Family
  BY Basics DEF Naming, TypeOK
<1>2. PICK f \in op[r].todo :
        op' = [op EXCEPT ![r].pc = IF Live(f) THEN "revokeDocs" ELSE "revoke",
                         ![r].todo = @ \ {f},
                         ![r].docs = IF Live(f) THEN {g \in WithChildren({f}) : Live(g)} ELSE {}]
  BY DEF RevokeRead
<1> DEFINE pc == IF Live(f) THEN "revokeDocs" ELSE "revoke"
           todo == op[r].todo \ {f}
           docs == IF Live(f) THEN {g \in WithChildren({f}) : Live(g)} ELSE {}
           o == [op[r] EXCEPT !.pc = pc, !.todo = todo, !.docs = docs]
<1>3. op \in [Req -> Request] /\ UNCHANGED <<store, fresh, history>>
  BY DEF Naming, TypeOK, RevokeRead
<1>4. op' = [op EXCEPT ![r] = o] BY <1>2, <1>3
<1>5. /\ pc \in {"revokeDocs", "revoke"} /\ todo \subseteq Family /\ docs \subseteq Family
      /\ \A g \in docs : Exists(g)
  BY <1>1, ConstantsAssumption DEF Request, WithChildren, Live, Exists
<1> HIDE DEF pc, todo, docs
<1>6. o \in Request /\ o.pc = pc /\ o.docs = docs
  BY <1>1, <1>5 DEF Request, PCs
<1> HIDE DEF o
<1>7. Good(o) /\ o.pc \notin Opening BY <1>5, <1>6, SweepGood
<1> QED BY <1>1, <1>3, <1>4, <1>6, <1>7, StayNaming DEF history

LEMMA RevokedNaming == ASSUME Naming, NEW r \in Req, Revoked(r) PROVE Naming' /\ Grows
<1>1. barred' \subseteq Family BY Basics DEF Naming, TypeOK, Revoked, Request
<1> QED BY <1>1, EndNaming DEF Revoked

(* A step of one request that changes the documents. *)
LEMMA StoreNaming ==
    ASSUME Naming, Grows, NEW r \in Req, TypeOK', Documents', fresh' >= fresh,
           \A q \in Req : q # r => op'[q] = op[q],
           Good(op[r])',
           \A q \in Req : q # r /\ op[q].pc \in Opening =>
             /\ doc'[op[q].tok] = NoFamily
             /\ \A t \in Token : doc'[t] # op[q].f
             /\ \A g \in Family : fam'[g].cur = op[q].tok => fam[g].cur = op[q].tok
             /\ fam'[op[q].f].cur = fam[op[q].f].cur
             /\ Exists(op[q].f)' => Exists(op[q].f)
             /\ op'[r].pc \in Opening => op'[r].f # op[q].f /\ op'[r].tok # op[q].tok
    PROVE  Naming' /\ Grows
<1>1. fresh \in Nat /\ fresh' \in Nat BY DEF Naming, TypeOK
<1>2. ASSUME NEW q \in Req PROVE Good(op[q])'
  BY <1>1, OtherGood
<1>3. Apart' BY DEF Naming, Apart
<1> QED BY <1>2, <1>3 DEF Naming

LEMMA OpenNaming == ASSUME Naming, NEW r \in Req, NEW f \in Family, Open(r, f) PROVE Naming' /\ Grows
<1>1. /\ op \in [Req -> Request] /\ fresh \in Token /\ fresh' = fresh + 1 /\ f \notin Legacy
      /\ ~Exists(f) /\ \A q \in Req : op[q].f # f
      /\ UNCHANGED <<fam, doc, linked, marked, known, answered, barred>>
  BY DEF Naming, TypeOK, Open, Exists, store, history
<1>2. Token \subseteq Nat /\ NoFamily \notin Family /\ \A g \in Family : fam[g].cur \in Nat
  BY Basics DEF Naming
<1> DEFINE o == [IdleOp EXCEPT !.pc = "create", !.f = f, !.tok = fresh]
<1>3. op' = [op EXCEPT ![r] = o] BY DEF Open
<1>4. /\ o \in Request /\ o.pc = "create" /\ o.f = f /\ o.tok = fresh /\ o.docs = {}
  BY <1>1, IdleType DEF Request, IdleOp, PCs
<1> HIDE DEF o
<1>5. op'[r] = o /\ \A q \in Req : q # r => op'[q] = op[q] BY <1>1, <1>3
<1>6. Grows BY <1>1 DEF Grows, Exists
<1>7. TypeOK' BY <1>1, <1>2, <1>3, <1>4 DEF Naming, TypeOK
<1>8. Documents' BY <1>1, <1>2 DEF Naming, Documents, Exists
<1>9. /\ doc[fresh] = NoFamily /\ \A t \in Token : doc[t] # f
      /\ \A g \in Family : fam[g].cur # fresh
  BY <1>1, <1>2 DEF Naming, Documents
<1>10. Good(op[r])'
  BY <1>1, <1>2, <1>4, <1>5, <1>9
  DEF Good, Stage, Exists, Opening, Upgrading, Refreshing, Holding, Seeing, Answering
<1>11. ASSUME NEW q \in Req, q # r, op[q].pc \in Opening
       PROVE  op[q].f # f /\ op[q].tok # fresh /\ doc[op[q].tok] = NoFamily
              /\ \A t \in Token : doc[t] # op[q].f
  BY <1>1, <1>2, <1>11 DEF Naming, Good
<1> QED BY <1>1, <1>2, <1>4, <1>5, <1>6, <1>7, <1>8, <1>10, <1>11, StoreNaming DEF Exists

LEMMA CreateNaming == ASSUME Naming, NEW r \in Req, Create(r) PROVE Naming' /\ Grows
<1> DEFINE f == op[r].f
           t == op[r].tok
           d == [NoFam EXCEPT !.state = "live", !.cur = t]
           o == [op[r] EXCEPT !.pc = "persist"]
<1>1. /\ op \in [Req -> Request] /\ op[r] \in Request /\ Good(op[r]) /\ op[r].pc = "create"
      /\ fam \in [Family -> FamilyDoc]
      /\ fam' = [fam EXCEPT ![f] = d] /\ op' = [op EXCEPT ![r] = o]
      /\ UNCHANGED <<doc, linked, marked, fresh, known, answered, barred>>
  BY DEF Naming, TypeOK, Create, At, history
<1>2. /\ f \in Family \ Legacy /\ t \in Token /\ t < fresh /\ doc[t] = NoFamily
      /\ \A u \in Token : doc[u] # f
      /\ \A g \in Family : fam[g].cur = t => g = f
      /\ ~Exists(f) /\ \A g \in op[r].docs : Exists(g)
  BY <1>1 DEF Good, Opening
<1>3. d \in FamilyDoc /\ d.state = "live" /\ d.cur = t /\ t # NoToken
  BY <1>2, IdleType, Basics DEF FamilyDoc, NoFam, Naming
<1>4. o \in Request /\ o.pc = "persist" /\ o.f = f /\ o.tok = t /\ o.docs = op[r].docs
  BY <1>1 DEF Request, PCs
<1> HIDE DEF d, o
<1>5. /\ op'[r] = o /\ \A q \in Req : q # r => op'[q] = op[q]
      /\ fam'[f] = d /\ \A g \in Family : g # f => fam'[g] = fam[g]
  BY <1>1, <1>2
<1>6. Grows BY <1>1, <1>2, <1>5 DEF Grows, Exists
<1>7. TypeOK'
  <2>1. /\ fam' \in [Family -> FamilyDoc] /\ op' \in [Req -> Request]
    BY <1>1, <1>2, <1>3, <1>4
  <2>2. \A g \in Family : fam'[g].state # "none" <=> fam'[g].cur # NoToken
    BY <1>2, <1>3, <1>5 DEF Naming, TypeOK
  <2>3. \A g \in linked' : fam'[g].state # "none"
    BY <1>1, <1>2, <1>3, <1>5, ConstantsAssumption DEF Naming, TypeOK
  <2> QED BY <1>1, <2>1, <2>2, <2>3 DEF Naming, TypeOK
<1>8. Documents'
  <2>1. \A g \in Family : fam'[g].cur < fresh'
    BY <1>1, <1>2, <1>3, <1>5 DEF Naming, Documents
  <2>2. \A u \in Token : doc'[u] \in Family \ Legacy => Exists(doc[u])'
    BY <1>1, <1>2, <1>5 DEF Naming, Documents, Exists
  <2>3. \A g \in Family : Exists(g)' => doc'[fam'[g].cur] \in {g, NoFamily}
    BY <1>1, <1>2, <1>3, <1>5 DEF Naming, Documents, Exists
  <2>4. \A g \in Family, u \in Token : Exists(g)' /\ doc'[u] = g => doc'[fam'[g].cur] = g
    BY <1>1, <1>2, <1>3, <1>5 DEF Naming, Documents, Exists
  <2> QED BY <1>1, <2>1, <2>2, <2>3, <2>4 DEF Naming, Documents
<1>9. Good(op[r])'
  <2>1. \A g \in Family : fam'[g].cur = t => g = f BY <1>2, <1>5
  <2>2. \A g \in op[r].docs : fam'[g].state # "none"
    BY <1>1, <1>2, <1>3, <1>5 DEF Request, Exists
  <2> QED BY <1>1, <1>2, <1>3, <1>4, <1>5, <2>1, <2>2
    DEF Good, Stage, Exists, Opening, Upgrading, Refreshing, Holding, Seeing, Answering
<1>10. ASSUME NEW q \in Req, q # r, op[q].pc \in Opening
       PROVE  /\ op[q].f # f /\ op[q].tok # t /\ op[q].f \in Family /\ doc[op[q].tok] = NoFamily
              /\ \A u \in Token : doc[u] # op[q].f
  <2>1. op[r].pc \in Opening BY <1>1 DEF Opening
  <2> QED BY <1>10, <2>1 DEF Naming, Good, Apart
<1>11. fresh \in Nat BY DEF Naming, TypeOK
<1> QED BY <1>1, <1>3, <1>4, <1>5, <1>6, <1>7, <1>8, <1>9, <1>10, <1>11, StoreNaming DEF Exists

LEMMA PersistNaming == ASSUME Naming, NEW r \in Req, Persist(r) PROVE Naming' /\ Grows
<1> DEFINE f == op[r].f
           t == op[r].tok
<1>1. /\ op \in [Req -> Request] /\ op[r] \in Request /\ Good(op[r]) /\ op[r].pc = "persist"
      /\ UNCHANGED <<fam, linked, marked, fresh, answered, barred>>
      /\ barred \subseteq Family /\ fresh \in Nat
  BY DEF Naming, TypeOK, Persist, At
<1>2. /\ f \in Family \ Legacy /\ t \in Token /\ t < fresh /\ doc[t] = NoFamily
      /\ \A u \in Token : doc[u] # f
      /\ \A g \in Family : fam[g].cur = t => g = f
      /\ fam[f].cur = t
  BY <1>1 DEF Good, Opening
<1>3. /\ NoFamily \notin Family /\ Token \subseteq Nat /\ Exists(f)
      /\ \A g \in Family : Exists(g) => fam[g].cur \in Token
  BY <1>2, Basics DEF Naming, FamilyDoc, Exists
<1>4. CASE RevokeAll(r, {f}) /\ UNCHANGED <<doc, known>>
  BY <1>1, <1>2, <1>4, RevokeNaming DEF store
<1>5. CASE doc' = [doc EXCEPT ![t] = f] /\ known' = known \cup {t} /\ End(r)
  <2>1. /\ op'[r] = IdleOp /\ \A q \in Req : q # r => op'[q] = op[q]
        /\ op' \in [Req -> Request]
    BY <1>1, <1>5, IdleType DEF End
  <2>2. /\ doc'[t] = f /\ \A u \in Token : u # t => doc'[u] = doc[u]
        /\ doc' \in [Token -> Family \cup {NoFamily}]
    BY <1>2, <1>5 DEF Naming, TypeOK
  <2>3. Grows BY <1>1, <1>2, <2>2 DEF Grows, Exists
  <2>4. TypeOK' BY <1>1, <1>2, <1>5, <2>1, <2>2 DEF Naming, TypeOK
  <2>5. Documents'
    <3>1. \A u \in Token : u >= fresh' => doc'[u] = NoFamily
      BY <1>1, <1>2, <1>3, <2>2 DEF Naming, Documents
    <3>2. \A u \in Token : doc'[u] \in Family \ Legacy => Exists(doc[u])'
      BY <1>1, <1>2, <1>3, <2>2 DEF Naming, Documents, Exists
    <3>3. \A g \in Family : Exists(g)' => doc'[fam'[g].cur] \in {g, NoFamily}
      BY <1>1, <1>2, <1>3, <2>2 DEF Naming, Documents, Exists
    <3>4. ASSUME NEW g \in Family, NEW u \in Token, Exists(g), doc'[u] = g
          PROVE  doc'[fam[g].cur] = g
      <4>1. CASE g = f BY <1>2, <2>2, <4>1
      <4>2. CASE g # f
        <5>1. u # t /\ doc[u] = g BY <2>2, <3>4, <4>2
        <5>2. doc[fam[g].cur] = g BY <3>4, <5>1 DEF Naming, Documents
        <5> QED BY <1>2, <1>3, <2>2, <3>4, <5>2
      <4> QED BY <4>1, <4>2
    <3>5. \A u \in known' : doc'[u] # NoFamily
      BY <1>2, <1>3, <1>5, <2>2 DEF Naming, Documents, TypeOK
    <3>6. \A x \in answered' : doc'[x[1]] = doc'[x[2]] /\ doc'[x[1]] # NoFamily
      BY <1>1, <1>2, <2>2 DEF Naming, Documents, TypeOK
    <3> QED BY <1>1, <3>1, <3>2, <3>3, <3>4, <3>5, <3>6 DEF Naming, Documents, Exists
  <2>6. Good(op[r])' BY <2>1, IdleGood DEF Good, Stage, IdleOp, Opening, Upgrading,
                                          Refreshing, Holding, Seeing, Answering
  <2>7. ASSUME NEW q \in Req, q # r, op[q].pc \in Opening
        PROVE  /\ op[q].f # f /\ op[q].tok # t /\ op[q].f \in Family /\ op[q].tok \in Token
               /\ doc[op[q].tok] = NoFamily /\ \A u \in Token : doc[u] # op[q].f
    <3>1. op[r].pc \in Opening BY <1>1 DEF Opening
    <3> QED BY <2>7, <3>1 DEF Naming, Good, Apart
  <2>8. op'[r].pc \notin Opening BY <2>1 DEF IdleOp, Opening
  <2> QED BY <1>1, <2>1, <2>2, <2>3, <2>4, <2>5, <2>6, <2>7, <2>8, StoreNaming DEF Exists
<1> QED BY <1>4, <1>5 DEF Persist

LEMMA UpgradeNaming == ASSUME Naming, NEW r \in Req, Upgrade(r) PROVE Naming' /\ Grows
<1> DEFINE f == op[r].f
           t == op[r].tok
           d == [NoFam EXCEPT !.state = "live", !.cur = t]
           o == [op[r] EXCEPT !.pc = "link"]
<1>1. /\ op \in [Req -> Request] /\ op[r] \in Request /\ Good(op[r]) /\ op[r].pc = "upgrade"
      /\ fam \in [Family -> FamilyDoc] /\ fresh \in Nat /\ op' = [op EXCEPT ![r] = o]
      /\ fam' = IF fam[f].state = "none" THEN [fam EXCEPT ![f] = d] ELSE fam
      /\ UNCHANGED <<doc, linked, marked, fresh, known, answered, barred>>
  BY DEF Naming, TypeOK, Upgrade, At, history
<1>2. /\ f \in Family /\ f \in Legacy /\ t \in Token /\ doc[t] = f
      /\ \A g \in op[r].docs : Exists(g)
  BY <1>1 DEF Good, Stage, Upgrading
<1>3. /\ NoFamily \notin Family /\ Token \subseteq Nat /\ t < fresh /\ t # NoToken
  BY <1>1, <1>2, Basics DEF Naming, Documents
<1>4. d \in FamilyDoc /\ d.state = "live" /\ d.cur = t
  BY <1>2, IdleType DEF FamilyDoc, NoFam
<1>5. /\ o \in Request /\ o.pc = "link" /\ o.f = f /\ o.tok = t /\ o.docs = op[r].docs
  BY <1>1 DEF Request, PCs
<1> HIDE DEF d, o
<1>6. /\ op'[r] = o /\ \A q \in Req : q # r => op'[q] = op[q] /\ op' \in [Req -> Request]
      /\ \A g \in Family : g # f => fam'[g] = fam[g]
      /\ fam[f].state = "none" => fam'[f] = d
      /\ fam[f].state # "none" => fam'[f] = fam[f]
      /\ fam' \in [Family -> FamilyDoc]
  BY <1>1, <1>2, <1>4, <1>5
<1>7. fam'[f].state # "none" BY <1>4, <1>6
<1>8. Grows BY <1>1, <1>2, <1>6, <1>7 DEF Grows, Exists
<1>9. op' \in [Req -> Request] BY <1>1, <1>5
<1>10. TypeOK'
  <2>1. \A g \in Family : fam'[g].state # "none" <=> fam'[g].cur # NoToken
    BY <1>3, <1>4, <1>6 DEF Naming, TypeOK
  <2>2. \A g \in linked' : fam'[g].state # "none"
    BY <1>1, <1>6, <1>7, ConstantsAssumption DEF Naming, TypeOK
  <2> QED BY <1>1, <1>6, <1>9, <2>1, <2>2 DEF Naming, TypeOK
<1>11. Documents'
  <2>1. \A g \in Family : fam'[g].cur < fresh'
    BY <1>1, <1>3, <1>4, <1>6 DEF Naming, Documents
  <2>2. \A u \in Token : doc'[u] \in Family \ Legacy => Exists(doc[u])'
    BY <1>1, <1>8 DEF Naming, Documents, Grows
  <2>3. \A g \in Family : Exists(g)' => doc'[fam'[g].cur] \in {g, NoFamily}
    BY <1>1, <1>2, <1>4, <1>6 DEF Naming, Documents, Exists
  <2>4. \A g \in Family, u \in Token : Exists(g)' /\ doc'[u] = g => doc'[fam'[g].cur] = g
    BY <1>1, <1>2, <1>4, <1>6 DEF Naming, Documents, Exists
  <2> QED BY <1>1, <2>1, <2>2, <2>3, <2>4 DEF Naming, Documents
<1>12. Good(op[r])'
  <2>1. \A g \in op[r].docs : fam'[g].state # "none"
    BY <1>1, <1>2, <1>8 DEF Request, Exists, Grows
  <2> QED BY <1>1, <1>2, <1>5, <1>6, <1>7, <2>1
    DEF Good, Stage, Exists, Opening, Upgrading, Refreshing, Holding, Seeing, Answering
<1>13. ASSUME NEW q \in Req, q # r, op[q].pc \in Opening
       PROVE  /\ op[q].f # f /\ op[q].tok # t /\ op[q].f \in Family /\ doc[op[q].tok] = NoFamily
              /\ \A u \in Token : doc[u] # op[q].f
  BY <1>2, <1>3, <1>13 DEF Naming, Good
<1>14. op'[r].pc \notin Opening BY <1>5, <1>6 DEF Opening
<1>15. ASSUME NEW q \in Req, q # r, op[q].pc \in Opening
       PROVE  /\ \A g \in Family : fam'[g].cur = op[q].tok => fam[g].cur = op[q].tok
              /\ fam'[op[q].f] = fam[op[q].f]
  BY <1>4, <1>6, <1>13, <1>15
<1> QED BY <1>1, <1>6, <1>8, <1>10, <1>11, <1>12, <1>13, <1>14, <1>15, StoreNaming DEF Exists

LEMMA CandidateNaming == ASSUME Naming, NEW r \in Req, Candidate(r) PROVE Naming' /\ Grows
<1> DEFINE f == op[r].f
           t == op[r].tok
           o == [op[r] EXCEPT !.pc = "rotate", !.new = fresh]
<1>1. /\ op \in [Req -> Request] /\ op[r] \in Request /\ Good(op[r]) /\ op[r].pc = "candidate"
      /\ fresh \in Token /\ fresh' = fresh + 1
      /\ doc' = [doc EXCEPT ![fresh] = f] /\ op' = [op EXCEPT ![r] = o]
      /\ UNCHANGED <<fam, linked, marked, known, answered, barred>>
  BY DEF Naming, TypeOK, Candidate, At, history
<1>2. /\ f \in Family /\ t \in Token /\ doc[t] = f /\ Exists(f)
      /\ \A g \in op[r].docs : Exists(g)
  BY <1>1 DEF Good, Stage, Refreshing
<1>3. /\ NoFamily \notin Family /\ Token \subseteq Nat
      /\ \A g \in Family : Exists(g) => fam[g].cur \in Token
      /\ \A g \in Family : fam[g].cur \in Nat /\ fam[g].cur < fresh
      /\ \A u \in Token : doc[u] # NoFamily => u < fresh
  BY <1>1, Basics DEF Naming, Documents, FamilyDoc, Exists
<1>4. o \in Request /\ o.pc = "rotate" /\ o.f = f /\ o.tok = t /\ o.new = fresh /\ o.docs = op[r].docs
  BY <1>1 DEF Request, PCs
<1> HIDE DEF o
<1>5. /\ op'[r] = o /\ \A q \in Req : q # r => op'[q] = op[q]
      /\ doc'[fresh] = f /\ \A u \in Token : u # fresh => doc'[u] = doc[u]
      /\ doc' \in [Token -> Family \cup {NoFamily}]
  BY <1>1, <1>2 DEF Naming, TypeOK
<1>6. op' \in [Req -> Request] BY <1>1, <1>4
<1>7. Grows BY <1>1, <1>3, <1>5 DEF Grows, Exists
<1>8. TypeOK' BY <1>1, <1>3, <1>5, <1>6 DEF Naming, TypeOK
<1>9. \A u \in Token : u < fresh => doc'[u] = doc[u] BY <1>1, <1>3, <1>5
<1>10. Documents'
  <2>1. \A u \in Token : u >= fresh' => doc'[u] = NoFamily
    BY <1>1, <1>3, <1>5 DEF Naming, Documents
  <2>2. \A u \in Token : doc'[u] \in Family \ Legacy => Exists(doc[u])'
    BY <1>1, <1>2, <1>5 DEF Naming, Documents, Exists
  <2>3. \A g \in Family : Exists(g)' => doc'[fam'[g].cur] \in {g, NoFamily}
    BY <1>1, <1>3, <1>9 DEF Naming, Documents, Exists
  <2>4. \A g \in Family, u \in Token : Exists(g)' /\ doc'[u] = g => doc'[fam'[g].cur] = g
    <3>1. ASSUME NEW g \in Family, NEW u \in Token, Exists(g), doc'[u] = g PROVE doc[fam[g].cur] = g
      BY <1>2, <1>5, <3>1 DEF Naming, Documents
    <3> QED BY <1>1, <1>3, <1>9, <3>1 DEF Exists
  <2>5. \A g \in Family : fam'[g].cur < fresh' BY <1>1, <1>3
  <2>6. \A u \in known' : doc'[u] # NoFamily
    BY <1>1, <1>3, <1>9 DEF Naming, Documents, TypeOK
  <2>7. \A x \in answered' : doc'[x[1]] = doc'[x[2]] /\ doc'[x[1]] # NoFamily
    BY <1>1, <1>3, <1>9 DEF Naming, Documents, TypeOK
  <2> QED BY <1>1, <1>3, <2>1, <2>2, <2>3, <2>4, <2>5, <2>6, <2>7 DEF Naming, Documents
<1>11. Good(op[r])'
  <2>1. doc'[t] = f /\ fresh < fresh' BY <1>1, <1>2, <1>3, <1>9
  <2>2. \A g \in op[r].docs : fam'[g].state # "none"
    BY <1>1, <1>2 DEF Exists
  <2> QED BY <1>1, <1>2, <1>4, <1>5, <2>1, <2>2
    DEF Good, Stage, Exists, Opening, Upgrading, Refreshing, Holding, Seeing, Answering
<1>12. ASSUME NEW q \in Req, q # r, op[q].pc \in Opening
       PROVE  /\ op[q].f # f /\ doc'[op[q].tok] = NoFamily
              /\ \A u \in Token : doc'[u] # op[q].f
  <2>1. /\ op[q].tok \in Token /\ op[q].tok < fresh /\ doc[op[q].tok] = NoFamily
        /\ \A u \in Token : doc[u] # op[q].f
    BY <1>12 DEF Naming, Good
  <2> QED BY <1>2, <1>5, <1>9, <2>1
<1>13. op'[r].pc \notin Opening BY <1>4, <1>5 DEF Opening
<1>14. fresh' >= fresh BY <1>1, <1>3
<1> QED BY <1>1, <1>5, <1>7, <1>8, <1>10, <1>11, <1>12, <1>13, <1>14, StoreNaming DEF Exists

LEMMA RotateNaming == ASSUME Naming, NEW r \in Req, Rotate(r) PROVE Naming' /\ Grows
<1> DEFINE f == op[r].f
           t == op[r].tok
           c == op[r].new
<1>1. /\ op \in [Req -> Request] /\ op[r] \in Request /\ Good(op[r]) /\ op[r].pc = "swap"
      /\ fam \in [Family -> FamilyDoc] /\ fresh \in Nat /\ barred \subseteq Family
      /\ UNCHANGED <<doc, linked, marked, fresh, known, answered, barred>>
  BY DEF Naming, TypeOK, Rotate, At, history
<1>2. /\ f \in Family /\ t \in Token /\ doc[t] = f /\ Exists(f)
      /\ c \in Token /\ c < fresh /\ doc[c] = f
      /\ op[r].seen.cur \in Token /\ doc[op[r].seen.cur] = f
  BY <1>1 DEF Good, Stage, Refreshing, Holding, Seeing
<1>3. NoFamily \notin Family /\ NoToken \notin Token BY Basics DEF Naming
<1>4. CASE UNCHANGED fam /\ AnswerWith(r, op[r].seen.cur)
  BY <1>1, <1>2, <1>4, AnswerWithNaming DEF store, history
<1>5. CASE UNCHANGED fam /\ RevokeAll(r, {f})
  BY <1>1, <1>2, <1>5, RevokeNaming DEF store
<1>6. CASE UNCHANGED fam /\ op' = [op EXCEPT ![r].pc = "lost", ![r].new = NoToken, ![r].seen = NoFam]
  <2> DEFINE o == [op[r] EXCEPT !.pc = "lost", !.new = NoToken, !.seen = NoFam]
  <2>1. /\ o \in Request /\ o.pc = "lost" /\ o.f = f /\ o.tok = t /\ o.docs = op[r].docs
        /\ op' = [op EXCEPT ![r] = o]
    BY <1>1, <1>6, IdleType DEF Request, PCs
  <2> HIDE DEF o
  <2>2. Good(o) /\ o.pc \notin Opening
    BY <1>1, <1>2, <2>1
    DEF Good, Stage, Opening, Upgrading, Refreshing, Holding, Seeing, Answering
  <2> QED BY <1>1, <1>6, <2>1, <2>2, StayNaming DEF store
<1>7. CASE /\ SwapMatches(r) /\ AnswerWith(r, c)
           /\ fam' = [fam EXCEPT ![f] = [@ EXCEPT !.cur = c, !.prev = t, !.retry = TRUE]]
  <2> DEFINE o == [IdleOp EXCEPT !.pc = "final", !.f = f, !.tok = t, !.ans = c]
  <2>1. fam[f] \in FamilyDoc /\ fam[f].state = "live" /\ fam[f].cur = t
    BY <1>1, <1>2, <1>7 DEF SwapMatches, Live
  <2>2. /\ fam'[f] \in FamilyDoc /\ fam'[f].state = "live" /\ fam'[f].cur = c
        /\ fam'[f] = [fam[f] EXCEPT !.cur = c, !.prev = t, !.retry = TRUE]
    BY <1>1, <1>2, <1>7, <2>1 DEF FamilyDoc
  <2>3. /\ \A g \in Family : g # f => fam'[g] = fam[g]
        /\ fam' \in [Family -> FamilyDoc]
    BY <1>1, <1>2, <1>7, <2>2
  <2>4. /\ o \in Request /\ o.pc = "final" /\ o.f = f /\ o.tok = t /\ o.ans = c /\ o.docs = {}
        /\ op' = [op EXCEPT ![r] = o]
    BY <1>1, <1>2, <1>7, IdleType DEF Request, PCs, IdleOp, AnswerWith
  <2> HIDE DEF o
  <2>5. /\ op'[r] = o /\ \A q \in Req : q # r => op'[q] = op[q]
    BY <1>1, <2>4
  <2>6. op' \in [Req -> Request] BY <1>1, <2>4
  <2>7. Grows BY <1>1, <2>1, <2>2, <2>3 DEF Grows, Exists
  <2>8. TypeOK'
    <3>1. \A g \in Family : fam'[g].state # "none" <=> fam'[g].cur # NoToken
      BY <1>2, <1>3, <2>2, <2>3 DEF Naming, TypeOK
    <3>2. \A g \in linked' : fam'[g].state # "none"
      BY <1>1, <2>2, <2>3, ConstantsAssumption DEF Naming, TypeOK
    <3> QED BY <1>1, <2>3, <2>6, <3>1, <3>2 DEF Naming, TypeOK
  <2>9. Documents'
    <3>1. \A g \in Family : fam'[g].cur < fresh'
      BY <1>1, <1>2, <2>2, <2>3 DEF Naming, Documents
    <3>2. \A u \in Token : doc'[u] \in Family \ Legacy => Exists(doc[u])'
      BY <1>1, <2>7 DEF Naming, Documents, Grows
    <3>3. \A g \in Family : Exists(g)' => doc'[fam'[g].cur] \in {g, NoFamily}
      BY <1>1, <1>2, <2>2, <2>3, ZenonT(60) DEF Naming, Documents, Exists
    <3>4. ASSUME NEW g \in Family, NEW u \in Token, fam'[g].state # "none", doc[u] = g
          PROVE  doc[fam'[g].cur] = g
      BY <1>2, <2>2, <2>3, <3>4 DEF Naming, Documents, Exists
    <3> QED BY <1>1, <3>1, <3>2, <3>3, <3>4 DEF Naming, Documents, Exists
  <2>10. Good(op[r])'
    BY <1>1, <1>2, <2>2, <2>4, <2>5
    DEF Good, Stage, Exists, Opening, Upgrading, Refreshing, Holding, Seeing, Answering
  <2>11. ASSUME NEW q \in Req, q # r, op[q].pc \in Opening
         PROVE  /\ op[q].f # f /\ op[q].tok # c /\ op[q].f \in Family /\ doc[op[q].tok] = NoFamily
                /\ \A u \in Token : doc[u] # op[q].f
    BY <1>2, <1>3, <2>11 DEF Naming, Good
  <2>12. op'[r].pc \notin Opening BY <2>4, <2>5 DEF Opening
  <2>13. ASSUME NEW q \in Req, q # r, op[q].pc \in Opening
         PROVE  /\ \A g \in Family : fam'[g].cur = op[q].tok => fam[g].cur = op[q].tok
                /\ fam'[op[q].f] = fam[op[q].f]
    BY <2>2, <2>3, <2>11, <2>13
  <2> QED BY <1>1, <2>5, <2>7, <2>8, <2>9, <2>10, <2>11, <2>12, <2>13, StoreNaming DEF Exists
<1> QED BY <1>4, <1>5, <1>6, <1>7 DEF Rotate

(* What no request relies on: the state and the window of a session that is *)
(* there.                                                                   *)
LEMMA SessionStays ==
    ASSUME Naming, NEW f \in Family, Exists(f), NEW d \in FamilyDoc,
           fam' = [fam EXCEPT ![f] = d], d.cur = fam[f].cur, d.state # "none",
           fam[f].state = "revoked" => d.state = "revoked",
           UNCHANGED <<doc, linked, marked, fresh, history>>
    PROVE  /\ Grows /\ Documents' /\ fam' \in [Family -> FamilyDoc]
           /\ \A g \in Family : fam'[g].cur = fam[g].cur /\ (Exists(g)' <=> Exists(g))
<1>1. fam \in [Family -> FamilyDoc] BY DEF Naming, TypeOK
<1>2. fam'[f] = d /\ \A g \in Family : g # f => fam'[g] = fam[g] BY <1>1
<1>3. fam' \in [Family -> FamilyDoc] BY <1>1
<1>4. \A g \in Family : fam'[g].cur = fam[g].cur /\ (Exists(g)' <=> Exists(g))
  BY <1>2 DEF Exists
<1>5. Grows BY <1>2, <1>4 DEF Grows, Exists
<1>6. Documents' BY <1>4 DEF Naming, Documents, history
<1> QED BY <1>3, <1>4, <1>5, <1>6

LEMMA RevokeDocNaming == ASSUME Naming, NEW r \in Req, RevokeDoc(r) PROVE Naming' /\ Grows
<1>1. /\ op \in [Req -> Request] /\ op[r] \in Request /\ Good(op[r]) /\ op[r].pc = "revokeDocs"
      /\ fam \in [Family -> FamilyDoc] /\ fresh \in Nat
      /\ UNCHANGED <<doc, linked, marked, fresh, known, answered, barred>>
  BY DEF Naming, TypeOK, RevokeDoc, At, history
<1>2. PICK f \in op[r].docs :
        /\ fam' = [fam EXCEPT ![f].state = "revoked"]
        /\ op' = [op EXCEPT ![r].docs = @ \ {f},
                            ![r].pc = IF op[r].docs = {f} THEN "revoke" ELSE @]
  BY DEF RevokeDoc
<1> DEFINE d == [fam[f] EXCEPT !.state = "revoked"]
           pc == IF op[r].docs = {f} THEN "revoke" ELSE op[r].pc
           o == [op[r] EXCEPT !.docs = @ \ {f}, !.pc = pc]
<1>3. f \in Family /\ Exists(f) /\ \A g \in op[r].docs : g \in Family /\ Exists(g)
  BY <1>1, <1>2 DEF Good, Request
<1>4. d \in FamilyDoc /\ d.state = "revoked" /\ d.cur = fam[f].cur /\ fam' = [fam EXCEPT ![f] = d]
  BY <1>1, <1>2, <1>3 DEF FamilyDoc
<1> HIDE DEF d
<1>5. /\ Grows /\ Documents' /\ fam' \in [Family -> FamilyDoc]
      /\ \A g \in Family : fam'[g].cur = fam[g].cur /\ (Exists(g)' <=> Exists(g))
  BY <1>1, <1>3, <1>4, SessionStays DEF history
<1>6. pc \in {"revoke", "revokeDocs"} BY <1>1
<1>7. op' = [op EXCEPT ![r] = o] BY <1>1, <1>2
<1> HIDE DEF pc
<1>8. o \in Request /\ o.pc = pc /\ o.docs \subseteq op[r].docs
  BY <1>1, <1>6 DEF Request, PCs
<1> HIDE DEF o
<1>9. op'[r] = o /\ (\A q \in Req : q # r => op'[q] = op[q]) /\ op' \in [Req -> Request]
  BY <1>1, <1>7, <1>8
<1>10. TypeOK'
  BY <1>1, <1>5, <1>9, ConstantsAssumption DEF Naming, TypeOK, Exists
<1>11. \A g \in o.docs : fam'[g].state # "none" BY <1>3, <1>5, <1>8 DEF Exists
<1>12. Good(op[r])' /\ op'[r].pc \notin Opening
  BY <1>6, <1>8, <1>9, <1>11
  DEF Good, Stage, Exists, Opening, Upgrading, Refreshing, Holding, Seeing, Answering
<1>13. ASSUME NEW q \in Req, op[q].pc \in Opening
       PROVE  op[q].f \in Family /\ doc[op[q].tok] = NoFamily /\ \A t \in Token : doc[t] # op[q].f
  BY <1>13 DEF Naming, Good
<1> QED BY <1>1, <1>5, <1>9, <1>10, <1>12, <1>13, StoreNaming DEF Exists

LEMMA WindowNaming == ASSUME Naming, NEW f \in Family, CloseRetryWindow(f) PROVE Naming' /\ Grows
<1> DEFINE d == [fam[f] EXCEPT !.retry = FALSE]
<1>1. /\ fam \in [Family -> FamilyDoc] /\ fresh \in Nat /\ fam[f].state = "live"
      /\ UNCHANGED <<doc, linked, marked, fresh, op, known, answered, barred>>
  BY DEF Naming, TypeOK, CloseRetryWindow, Live, history
<1>2. /\ d \in FamilyDoc /\ d.state = "live" /\ d.cur = fam[f].cur /\ fam' = [fam EXCEPT ![f] = d]
      /\ Exists(f)
  BY <1>1 DEF FamilyDoc, CloseRetryWindow, Exists
<1> HIDE DEF d
<1>3. /\ Grows /\ Documents' /\ fam' \in [Family -> FamilyDoc]
      /\ \A g \in Family : fam'[g].cur = fam[g].cur /\ (Exists(g)' <=> Exists(g))
  BY <1>1, <1>2, SessionStays DEF history
<1>4. TypeOK' BY <1>1, <1>3, ConstantsAssumption DEF Naming, TypeOK, Exists
<1>5. ASSUME NEW q \in Req PROVE Good(op[q])'
  <2>1. op[q].pc \in Opening =>
          op[q].f \in Family /\ doc[op[q].tok] = NoFamily /\ \A t \in Token : doc[t] # op[q].f
    BY DEF Naming, Good
  <2> QED BY <1>1, <1>3, <2>1, OtherGood DEF Exists
<1>6. Apart' BY <1>1 DEF Naming, Apart
<1> QED BY <1>3, <1>4, <1>5, <1>6 DEF Naming

LEMMA StepNaming == ASSUME Naming, NEW r \in Req, Step(r) PROVE Naming' /\ Grows
<1>1. CASE FirstValidate(r)
  BY <1>1, ValidateNaming DEF FirstValidate, At, Refreshing
<1>2. CASE RotateRead(r)
  BY <1>2, ValidateNaming DEF RotateRead, At, Refreshing, Holding
<1>3. CASE LostRead(r)
  BY <1>3, ValidateNaming DEF LostRead, At, Refreshing
<1>4. CASE FinalValidate(r)
  BY <1>4, ValidateNaming DEF FinalValidate, At, Refreshing, Answering
<1> QED BY <1>1, <1>2, <1>3, <1>4, CheckParentNaming, CreateNaming, PersistNaming, UpgradeNaming,
           LinkNaming, CandidateNaming, RotateNaming, SettleNaming, AnswerNaming, SweepNaming,
           RevokeReadNaming, RevokeDocNaming, RevokedNaming
    DEF Step

LEMMA NextNaming == ASSUME Naming, Next PROVE Naming' /\ Grows
<1>1. barred \subseteq Family BY DEF Naming, TypeOK
<1>2. ASSUME NEW r \in Req, Fail(r) PROVE Naming' /\ Grows
  BY <1>1, <1>2, EndNaming DEF Fail, history
<1> QED BY <1>2, StepNaming, OpenNaming, RevocationNaming, RefreshNaming, RevokeTokenNaming,
           MarkNaming, WindowNaming
    DEF Next

LEMMA InitNaming == Init => Naming
<1> SUFFICES ASSUME Init PROVE Naming OBVIOUS
<1> DEFINE n == Cardinality(Legacy)
<1>1. n \in Nat /\ n <= MaxTokens /\ MaxTokens \in Nat
  BY ConstantsAssumption, FS_CardinalityType
<1>2. PICK family \in [LegacyToken -> Legacy] :
        doc = [t \in Token |-> IF t \in LegacyToken THEN family[t] ELSE NoFamily]
  BY DEF Init
<1>3. /\ fam = [f \in Family |-> NoFam] /\ linked = {} /\ marked = {}
      /\ op = [r \in Req |-> IdleOp] /\ fresh = n + 1 /\ known = LegacyToken
      /\ answered = {} /\ barred = {}
  BY DEF Init
<1>4. /\ LegacyToken = 1 .. n /\ Token = 1 .. MaxTokens /\ Legacy \subseteq Family
      /\ NoFamily \notin Family
  BY ConstantsAssumption DEF LegacyToken, Token
<1> HIDE DEF n
<1>5. TypeOK
  BY <1>1, <1>2, <1>3, <1>4, IdleType DEF TypeOK, NoFam
<1>6. Documents
  BY <1>1, <1>2, <1>3, <1>4 DEF Documents, Exists, NoFam, NoToken
<1>7. Apart BY <1>3 DEF Apart, IdleOp, Opening
<1> QED BY <1>3, <1>5, <1>6, <1>7, IdleGood DEF Naming

-----------------------------------------------------------------------------
(* Succession: the tokens of a family do not fork *)

Quiet(o) == Stage(o) \notin Holding \cup Seeing \cup Answering

(* A step after which nobody sees more than before. *)
LEMMA KeepSuccession ==
    ASSUME Naming, Grows, Succession,
           \A p, c \in Token : Succ(p, c)' => Succ(p, c),
           \A f \in Family : fam'[f].cur = fam[f].cur,
           \A q \in Req : Stage(op'[q]) \in Holding =>
                            Stage(op[q]) \in Holding /\ op'[q].new = op[q].new
    PROVE  Succession'
<1>1. \A p, c, d \in Token : Succ(p, c)' /\ Succ(p, d)' => c = d BY DEF Succession
<1>2. ASSUME NEW p \in Token, NEW c \in Token, Succ(p, c)'
      PROVE  /\ doc'[p] \in Family /\ fam'[doc'[p]].state # "none"
             /\ \A f \in Family : fam'[f].cur # p
             /\ \A q \in Req : Stage(op'[q]) \in Holding => op'[q].new # p
  <2>1. /\ doc[p] \in Family /\ Exists(doc[p]) /\ \A f \in Family : fam[f].cur # p
        /\ \A q \in Req : Stage(op[q]) \in Holding => op[q].new # p
    BY <1>2 DEF Succession
  <2>2. NoFamily \notin Family BY ConstantsAssumption
  <2>3. doc'[p] = doc[p] /\ Exists(doc[p])' BY <2>1, <2>2 DEF Grows
  <2> QED BY <2>1, <2>3 DEF Exists
<1>3. \A q \in Req : Stage(op'[q]) \in Holding => \A f \in Family : fam'[f].cur # op'[q].new
  BY DEF Succession
<1>4. \A r, q \in Req : r # q /\ Stage(op'[r]) \in Holding /\ Stage(op'[q]) \in Holding =>
                          op'[r].new # op'[q].new
  BY DEF Succession
<1> QED BY <1>1, <1>2, <1>3, <1>4 DEF Succession, Exists, Stage

(* A step of one request that leaves the tokens of the families alone. *)
LEMMA MoveSuccession ==
    ASSUME Naming, Grows, Succession, NEW r \in Req,
           \A q \in Req : q # r => op'[q] = op[q],
           \A f \in Family : fam'[f].cur = fam[f].cur /\ fam'[f].prev = fam[f].prev,
           answered' = answered,
           Stage(op'[r]) \in Holding => Stage(op[r]) \in Holding /\ op'[r].new = op[r].new,
           Stage(op'[r]) \in Seeing /\ op'[r].seen.prev # NoToken =>
             Succ(op'[r].seen.prev, op'[r].seen.cur),
           Stage(op'[r]) \in Answering /\ op'[r].tok # op'[r].ans => Succ(op'[r].tok, op'[r].ans)
    PROVE  Succession'
<1>1. ASSUME NEW p \in Token, NEW c \in Token, Succ(p, c)' PROVE Succ(p, c)
  <2>1. p # NoToken BY Basics DEF Naming
  <2>2. CASE \E f \in Family : fam'[f].prev = p /\ fam'[f].cur = c BY <2>1, <2>2 DEF Succ
  <2>3. CASE \E q \in Req : Stage(op'[q]) \in Seeing /\ op'[q].seen.prev = p /\ op'[q].seen.cur = c
    BY <2>1, <2>3 DEF Succ
  <2>4. CASE \E q \in Req : Stage(op'[q]) \in Answering /\ op'[q].tok = p /\ op'[q].ans = c /\ p # c
    BY <2>1, <2>4 DEF Succ
  <2>5. CASE <<p, c>> \in answered' /\ p # c BY <2>1, <2>5 DEF Succ
  <2> QED BY <1>1, <2>2, <2>3, <2>4, <2>5 DEF Succ, Stage
<1>2. \A q \in Req : Stage(op'[q]) \in Holding =>
                       Stage(op[q]) \in Holding /\ op'[q].new = op[q].new
  OBVIOUS
<1> QED BY <1>1, <1>2, KeepSuccession

LEMMA QuietSuccession ==
    ASSUME Naming, Grows, Succession, NEW r \in Req, Quiet(op'[r]),
           \A q \in Req : q # r => op'[q] = op[q],
           \A f \in Family : fam'[f].cur = fam[f].cur /\ fam'[f].prev = fam[f].prev,
           answered' = answered
    PROVE  Succession'
BY MoveSuccession DEF Quiet

LEMMA QuietPlaces ==
    ASSUME NEW o, o.pc \in {"idle", "create", "persist", "upgrade", "link", "validate", "candidate",
                            "lost", "sweep", "revoke", "revokeDocs"}
    PROVE  Quiet(o)
BY DEF Quiet, Stage, Holding, Seeing, Answering

(* Where each action leaves its request, and that it leaves the others. *)
LEMMA EndMove == ASSUME Naming, NEW r \in Req, End(r)
                 PROVE  op'[r] = IdleOp /\ \A q \in Req : q # r => op'[q] = op[q]
BY DEF End, Naming, TypeOK

LEMMA RevokeMove ==
    ASSUME Naming, NEW r \in Req, NEW S, RevokeAll(r, S)
    PROVE  /\ op'[r] = [IdleOp EXCEPT !.pc = "revoke", !.todo = S, !.covers = WithChildren(S)]
           /\ op'[r].pc = "revoke" /\ op'[r].todo = S /\ op'[r].covers = WithChildren(S)
           /\ op'[r].docs = {} /\ \A q \in Req : q # r => op'[q] = op[q]
BY DEF RevokeAll, Naming, TypeOK, IdleOp

LEMMA AnswerMove ==
    ASSUME Naming, NEW r \in Req, NEW t, AnswerWith(r, t)
    PROVE  /\ op'[r].pc = "final" /\ op'[r].f = op[r].f /\ op'[r].tok = op[r].tok /\ op'[r].ans = t
           /\ ~op'[r].late /\ \A q \in Req : q # r => op'[q] = op[q]
BY DEF AnswerWith, Naming, TypeOK, IdleOp

LEMMA ValidateMove ==
    ASSUME Naming, NEW r \in Req, NEW then \in {"candidate", "swap", "settle", "answer"},
           Validate(r, op[r].f, then), op[r].pc # "parent"
    PROVE  /\ \A q \in Req : q # r => op'[q] = op[q]
           /\ \/ op'[r] = IdleOp
              \/ /\ Live(op[r].f) /\ Stage(op'[r]) = then
                 /\ op'[r].f = op[r].f /\ op'[r].tok = op[r].tok /\ op'[r].new = op[r].new
                 /\ op'[r].ans = op[r].ans
                 /\ then \in {"swap", "settle"} => op'[r].seen = fam[op[r].f]
                 /\ op'[r].late <=> op[r].f \in barred /\ then = "answer"
                 /\ op'[r].pc = IF Parent[op[r].f] = NoFamily THEN then ELSE "parent"
<1>1. op \in [Req -> Request] BY DEF Naming, TypeOK
<1>2. CASE Live(op[r].f)
  <2>1. op[r] \in Request BY <1>1
  <2> QED BY <1>1, <1>2, <2>1 DEF Validate, Stage, Request
<1>3. CASE ~Live(op[r].f)
  BY <1>3, EndMove DEF Validate
<1> QED BY <1>2, <1>3

LEMMA ValidateSuccession ==
    ASSUME Naming, Grows, Succession, NEW r \in Req,
           NEW then \in {"candidate", "swap", "settle", "answer"},
           Validate(r, op[r].f, then), op[r].pc \in Refreshing,
           then = "swap" => op[r].pc \in Holding,
           then = "answer" => op[r].pc \in Answering,
           UNCHANGED <<store, fresh, history>>
    PROVE  Succession'
<1>1. /\ op[r].pc # "parent" /\ Stage(op[r]) = op[r].pc BY DEF Refreshing, Stage
<1>2. UNCHANGED <<fam, answered>> BY DEF store, history
<1>3. CASE op'[r] = IdleOp
  <2>1. Quiet(op'[r]) BY <1>3, QuietPlaces DEF IdleOp
  <2> QED BY <1>1, <1>2, <2>1, ValidateMove, QuietSuccession
<1>4. CASE op'[r] # IdleOp
  <2>1. /\ Live(op[r].f) /\ Stage(op'[r]) = then /\ \A q \in Req : q # r => op'[q] = op[q]
        /\ op'[r].f = op[r].f /\ op'[r].tok = op[r].tok /\ op'[r].new = op[r].new
        /\ op'[r].ans = op[r].ans
        /\ then \in {"swap", "settle"} => op'[r].seen = fam[op[r].f]
    BY <1>1, <1>4, ValidateMove
  <2>2. Stage(op'[r]) \in Holding => Stage(op[r]) \in Holding
    BY <1>1, <2>1 DEF Holding
  <2>3. Stage(op'[r]) \in Seeing /\ op'[r].seen.prev # NoToken =>
          Succ(op'[r].seen.prev, op'[r].seen.cur)
    BY <2>1 DEF Seeing, Live, Succ
  <2>4. Stage(op'[r]) \in Answering /\ op'[r].tok # op'[r].ans => Succ(op'[r].tok, op'[r].ans)
    <3> SUFFICES ASSUME Stage(op'[r]) \in Answering, op'[r].tok # op'[r].ans
                 PROVE  Succ(op'[r].tok, op'[r].ans)
      OBVIOUS
    <3>1. Stage(op[r]) \in Answering BY <1>1, <2>1 DEF Answering
    <3>2. op[r].tok \in Token /\ NoToken \notin Token
      BY <3>1, Basics DEF Naming, Good, Answering, Refreshing
    <3> QED BY <2>1, <3>1, <3>2 DEF Succ
  <2> QED BY <1>2, <2>1, <2>2, <2>3, <2>4, MoveSuccession
<1> QED BY <1>3, <1>4

LEMMA CheckParentSuccession ==
    ASSUME Naming, Grows, Succession, NEW r \in Req, CheckParent(r)
    PROVE  Succession'
<1>1. /\ op \in [Req -> Request] /\ op[r] \in Request /\ op[r].pc = "parent"
      /\ op[r].ret \in {"candidate", "swap", "settle", "answer"} /\ UNCHANGED <<fam, answered>>
  BY DEF Naming, TypeOK, CheckParent, At, Good, store, history
<1>2. CASE End(r)
  <2>1. Quiet(op'[r]) BY <1>2, EndMove, QuietPlaces DEF IdleOp
  <2> QED BY <1>1, <1>2, <2>1, EndMove, QuietSuccession
<1>3. CASE op' = [op EXCEPT ![r].pc = op[r].ret, ![r].ret = "idle"]
  <2>1. /\ Stage(op'[r]) = Stage(op[r]) /\ op'[r].tok = op[r].tok /\ op'[r].new = op[r].new
        /\ op'[r].ans = op[r].ans /\ op'[r].seen = op[r].seen
        /\ \A q \in Req : q # r => op'[q] = op[q]
    BY <1>1, <1>3 DEF Stage, Request
  <2>2. op[r].tok \in Token \cup {NoToken} /\ NoToken \notin Token
    BY <1>1, Basics DEF Request, Naming
  <2>3. Stage(op[r]) \in Answering => op[r].tok \in Token
    BY DEF Naming, Good, Answering, Refreshing
  <2>4. Stage(op'[r]) \in Seeing /\ op'[r].seen.prev # NoToken =>
          Succ(op'[r].seen.prev, op'[r].seen.cur)
    BY <2>1 DEF Succ
  <2>5. Stage(op'[r]) \in Answering /\ op'[r].tok # op'[r].ans => Succ(op'[r].tok, op'[r].ans)
    BY <2>1, <2>2, <2>3 DEF Succ
  <2> QED BY <1>1, <2>1, <2>4, <2>5, MoveSuccession
<1> QED BY <1>1, <1>2, <1>3 DEF CheckParent

(* An answer that was read: the token itself, or what has followed it. *)
LEMMA SeenSuccession ==
    ASSUME Naming, Grows, Succession, NEW r \in Req, op[r].pc \in Seeing,
           AnswerWith(r, op[r].seen.cur), op[r].tok \in {op[r].seen.cur, op[r].seen.prev},
           UNCHANGED <<fam, answered>>
    PROVE  Succession'
<1>1. Stage(op[r]) = op[r].pc BY DEF Stage, Seeing
<1>2. /\ op'[r].pc = "final" /\ op'[r].tok = op[r].tok /\ op'[r].ans = op[r].seen.cur
      /\ \A q \in Req : q # r => op'[q] = op[q]
  BY AnswerMove
<1>3. Stage(op'[r]) \notin Holding \cup Seeing BY <1>2 DEF Stage, Holding, Seeing
<1>4. op[r].tok # NoToken
  BY <1>1, Basics DEF Naming, Good, Seeing, Refreshing
<1>5. op[r].tok # op[r].seen.cur => Succ(op[r].tok, op[r].seen.cur)
  BY <1>1, <1>4 DEF Succ
<1> QED BY <1>2, <1>3, <1>5, MoveSuccession

LEMMA SettleSuccession ==
    ASSUME Naming, Grows, Succession, NEW r \in Req, Settle(r)
    PROVE  Succession'
<1>1. op[r].pc = "settle" /\ op[r].pc \in Seeing /\ UNCHANGED <<fam, answered>>
  BY DEF Settle, At, Seeing, store, history
<1>2. CASE End(r)
  <2>1. Quiet(op'[r]) BY <1>2, EndMove, QuietPlaces DEF IdleOp
  <2> QED BY <1>1, <1>2, <2>1, EndMove, QuietSuccession
<1>3. CASE op[r].seen.prev = op[r].tok /\ AnswerWith(r, op[r].seen.cur)
  BY <1>1, <1>3, SeenSuccession
<1> QED BY <1>2, <1>3 DEF Settle

LEMMA AnswerSuccession ==
    ASSUME Naming, Grows, Succession, NEW r \in Req, Answer(r)
    PROVE  Succession'
<1>1. /\ op[r].pc = "answer" /\ UNCHANGED fam /\ End(r)
      /\ answered' = answered \cup {<<op[r].tok, op[r].ans>>}
  BY DEF Answer, At, store
<1>2. op'[r] = IdleOp /\ \A q \in Req : q # r => op'[q] = op[q] BY <1>1, EndMove
<1>3. Quiet(op'[r]) BY <1>2, QuietPlaces DEF IdleOp
<1>4. Stage(op[r]) \in Answering BY <1>1 DEF Stage, Answering
<1>5. ASSUME NEW p \in Token, NEW c \in Token, Succ(p, c)' PROVE Succ(p, c)
  <2>1. p # NoToken BY Basics DEF Naming
  <2>2. CASE \E f \in Family : fam'[f].prev = p /\ fam'[f].cur = c BY <1>1, <2>1, <2>2 DEF Succ
  <2>3. CASE \E q \in Req : Stage(op'[q]) \in Seeing /\ op'[q].seen.prev = p /\ op'[q].seen.cur = c
    BY <1>2, <1>3, <2>1, <2>3 DEF Succ, Quiet
  <2>4. CASE \E q \in Req : Stage(op'[q]) \in Answering /\ op'[q].tok = p /\ op'[q].ans = c /\ p # c
    BY <1>2, <1>3, <2>1, <2>4 DEF Succ, Quiet
  <2>5. CASE <<p, c>> \in answered' /\ p # c
    <3>1. <<p, c>> \in answered \/ (op[r].tok = p /\ op[r].ans = c) BY <1>1, <2>5
    <3> QED BY <1>4, <2>1, <2>5, <3>1 DEF Succ
  <2> QED BY <1>5, <2>2, <2>3, <2>4, <2>5 DEF Succ, Stage
<1>6. \A q \in Req : Stage(op'[q]) \in Holding =>
                       Stage(op[q]) \in Holding /\ op'[q].new = op[q].new
  BY <1>2, <1>3 DEF Quiet
<1> QED BY <1>1, <1>5, <1>6, KeepSuccession

(* The first token of a session succeeds no other. *)
LEMMA BornSuccession ==
    ASSUME Naming, Grows, Succession, NEW r \in Req, NEW f \in Family, ~Exists(f),
           NEW t \in Token, doc[t] \in {f, NoFamily},
           fam' = [fam EXCEPT ![f] = [NoFam EXCEPT !.state = "live", !.cur = t]],
           UNCHANGED <<doc, answered>>, Quiet(op'[r]), \A q \in Req : q # r => op'[q] = op[q]
    PROVE  Succession'
<1>1. NoFamily \notin Family /\ NoToken \notin Token BY Basics DEF Naming
<1>2. /\ fam'[f].cur = t /\ fam'[f].prev = NoToken
      /\ \A g \in Family : g # f => fam'[g] = fam[g]
  BY DEF Naming, TypeOK, NoFam
<1>3. ASSUME NEW p \in Token, NEW c \in Token, Succ(p, c)' PROVE Succ(p, c)
  <2>1. p # NoToken BY <1>1
  <2>2. CASE \E g \in Family : fam'[g].prev = p /\ fam'[g].cur = c BY <1>2, <2>1, <2>2 DEF Succ
  <2>3. CASE \E q \in Req : Stage(op'[q]) \in Seeing /\ op'[q].seen.prev = p /\ op'[q].seen.cur = c
    BY <2>1, <2>3 DEF Succ, Quiet
  <2>4. CASE \E q \in Req : Stage(op'[q]) \in Answering /\ op'[q].tok = p /\ op'[q].ans = c /\ p # c
    BY <2>1, <2>4 DEF Succ, Quiet
  <2>5. CASE <<p, c>> \in answered' /\ p # c BY <2>1, <2>5 DEF Succ
  <2> QED BY <1>3, <2>2, <2>3, <2>4, <2>5 DEF Succ, Stage
<1>4. \A q \in Req : Stage(op'[q]) \in Holding =>
                       q # r /\ Stage(op[q]) \in Holding /\ op'[q].new = op[q].new
  BY DEF Quiet
<1>5. ASSUME NEW p \in Token, NEW c \in Token, Succ(p, c)
      PROVE  /\ doc'[p] \in Family /\ fam'[doc'[p]].state # "none"
             /\ \A g \in Family : fam'[g].cur # p
             /\ \A q \in Req : Stage(op'[q]) \in Holding => op'[q].new # p
  <2>1. /\ doc[p] \in Family /\ Exists(doc[p]) /\ \A g \in Family : fam[g].cur # p
        /\ \A q \in Req : Stage(op[q]) \in Holding => op[q].new # p
    BY <1>5 DEF Succession
  <2>2. p # t BY <1>1, <2>1
  <2>3. Exists(doc[p])' BY <2>1 DEF Grows
  <2> QED BY <1>2, <1>4, <2>1, <2>2, <2>3 DEF Exists
<1>6. ASSUME NEW q \in Req, Stage(op'[q]) \in Holding
      PROVE  \A g \in Family : fam'[g].cur # op'[q].new
  <2>1. /\ Stage(op[q]) \in Holding /\ op'[q].new = op[q].new
        /\ \A g \in Family : fam[g].cur # op[q].new
    BY <1>4, <1>6 DEF Succession
  <2>2. doc[op[q].new] = op[q].f /\ op[q].f \in Family /\ Exists(op[q].f)
    BY <2>1 DEF Naming, Good, Holding, Refreshing
  <2> QED BY <1>1, <1>2, <2>1, <2>2
<1>7. \A q, v \in Req : v # q /\ Stage(op'[v]) \in Holding /\ Stage(op'[q]) \in Holding =>
                          op'[v].new # op'[q].new
  BY <1>4 DEF Succession
<1>8. \A p, c, d \in Token : Succ(p, c)' /\ Succ(p, d)' => c = d BY <1>3 DEF Succession
<1> QED BY <1>3, <1>5, <1>6, <1>7, <1>8 DEF Succession, Exists, Stage

LEMMA CreateSuccession ==
    ASSUME Naming, Grows, Succession, NEW r \in Req, Create(r)
    PROVE  Succession'
<1>1. /\ op \in [Req -> Request] /\ op[r] \in Request /\ Good(op[r]) /\ op[r].pc = "create"
      /\ op' = [op EXCEPT ![r].pc = "persist"] /\ UNCHANGED <<doc, answered>>
      /\ fam' = [fam EXCEPT ![op[r].f] = [NoFam EXCEPT !.state = "live", !.cur = op[r].tok]]
  BY DEF Naming, TypeOK, Create, At, history
<1>2. op'[r].pc = "persist" /\ \A q \in Req : q # r => op'[q] = op[q] BY <1>1 DEF Request
<1>3. op[r].f \in Family /\ ~Exists(op[r].f) /\ op[r].tok \in Token /\ doc[op[r].tok] = NoFamily
  BY <1>1 DEF Good, Opening
<1>4. Quiet(op'[r]) BY <1>2, QuietPlaces
<1> QED BY <1>1, <1>2, <1>3, <1>4, BornSuccession

LEMMA UpgradeSuccession ==
    ASSUME Naming, Grows, Succession, NEW r \in Req, Upgrade(r)
    PROVE  Succession'
<1>1. /\ op \in [Req -> Request] /\ op[r] \in Request /\ Good(op[r]) /\ op[r].pc = "upgrade"
      /\ op' = [op EXCEPT ![r].pc = "link"] /\ UNCHANGED <<doc, answered>>
      /\ fam' = IF fam[op[r].f].state = "none"
                THEN [fam EXCEPT ![op[r].f] = [NoFam EXCEPT !.state = "live", !.cur = op[r].tok]]
                ELSE fam
  BY DEF Naming, TypeOK, Upgrade, At, history
<1>2. op'[r].pc = "link" /\ \A q \in Req : q # r => op'[q] = op[q] BY <1>1 DEF Request
<1>3. op[r].f \in Family /\ op[r].tok \in Token /\ doc[op[r].tok] = op[r].f
  BY <1>1 DEF Good, Stage, Upgrading
<1>4. Quiet(op'[r]) BY <1>2, QuietPlaces
<1>5. CASE Exists(op[r].f)
  BY <1>1, <1>2, <1>4, <1>5, QuietSuccession DEF Exists
<1>6. CASE ~Exists(op[r].f)
  BY <1>1, <1>2, <1>3, <1>4, <1>6, BornSuccession DEF Exists
<1> QED BY <1>5, <1>6

LEMMA CandidateSuccession ==
    ASSUME Naming, Grows, Succession, NEW r \in Req, Candidate(r)
    PROVE  Succession'
<1>1. /\ op \in [Req -> Request] /\ op[r] \in Request /\ op[r].pc = "candidate" /\ fresh \in Token
      /\ op' = [op EXCEPT ![r].pc = "rotate", ![r].new = fresh] /\ UNCHANGED <<fam, answered>>
  BY DEF Naming, TypeOK, Candidate, At, history
<1>2. /\ op'[r].pc = "rotate" /\ op'[r].new = fresh /\ \A q \in Req : q # r => op'[q] = op[q]
  BY <1>1 DEF Request
<1>3. /\ NoFamily \notin Family /\ NoToken \notin Token /\ Token \subseteq Nat
      /\ doc[fresh] = NoFamily /\ \A f \in Family : fam[f].cur \in Nat /\ fam[f].cur < fresh
  BY <1>1, Basics DEF Naming, Documents
<1>4. Stage(op'[r]) \in Holding /\ Stage(op'[r]) \notin Seeing \cup Answering
  BY <1>2 DEF Stage, Holding, Seeing, Answering
<1>5. ASSUME NEW p \in Token, NEW c \in Token, Succ(p, c)' PROVE Succ(p, c)
  <2>1. p # NoToken BY <1>3
  <2>2. CASE \E g \in Family : fam'[g].prev = p /\ fam'[g].cur = c BY <1>1, <2>1, <2>2 DEF Succ
  <2>3. CASE \E q \in Req : Stage(op'[q]) \in Seeing /\ op'[q].seen.prev = p /\ op'[q].seen.cur = c
    BY <1>2, <1>4, <2>1, <2>3 DEF Succ
  <2>4. CASE \E q \in Req : Stage(op'[q]) \in Answering /\ op'[q].tok = p /\ op'[q].ans = c /\ p # c
    BY <1>2, <1>4, <2>1, <2>4 DEF Succ
  <2>5. CASE <<p, c>> \in answered' /\ p # c BY <1>1, <2>1, <2>5 DEF Succ
  <2> QED BY <1>5, <2>2, <2>3, <2>4, <2>5 DEF Succ, Stage
<1>6. ASSUME NEW p \in Token, NEW c \in Token, Succ(p, c)
      PROVE  /\ doc'[p] \in Family /\ fam'[doc'[p]].state # "none"
             /\ \A g \in Family : fam'[g].cur # p
             /\ \A q \in Req : Stage(op'[q]) \in Holding => op'[q].new # p
  <2>1. /\ doc[p] \in Family /\ Exists(doc[p]) /\ \A g \in Family : fam[g].cur # p
        /\ \A q \in Req : Stage(op[q]) \in Holding => op[q].new # p
    BY <1>6 DEF Succession
  <2>2. p # fresh BY <1>3, <2>1
  <2>3. doc'[p] = doc[p] BY <1>3, <2>1 DEF Grows
  <2> QED BY <1>1, <1>2, <2>1, <2>2, <2>3 DEF Exists
<1>7. \A q \in Req : Stage(op[q]) \in Holding => op[q].new # fresh
  BY <1>3 DEF Naming, Good, Holding, Refreshing
<1>8. \A q \in Req : Stage(op'[q]) \in Holding => \A g \in Family : fam'[g].cur # op'[q].new
  BY <1>1, <1>2, <1>3 DEF Succession
<1>9. \A q, v \in Req : v # q /\ Stage(op'[v]) \in Holding /\ Stage(op'[q]) \in Holding =>
                          op'[v].new # op'[q].new
  BY <1>2, <1>7 DEF Succession
<1>10. \A p, c, d \in Token : Succ(p, c)' /\ Succ(p, d)' => c = d BY <1>5 DEF Succession
<1> QED BY <1>5, <1>6, <1>8, <1>9, <1>10 DEF Succession, Exists, Stage

(* The swap: the current token gets its one successor. *)
LEMMA SwapSuccession ==
    ASSUME Naming, Grows, Succession, NEW r \in Req, op[r].pc = "swap",
           SwapMatches(r), AnswerWith(r, op[r].new), UNCHANGED <<doc, answered>>,
           fam' = [fam EXCEPT ![op[r].f] = [@ EXCEPT !.cur = op[r].new, !.prev = op[r].tok,
                                                     !.retry = TRUE]]
    PROVE  Succession'
<1> DEFINE f == op[r].f
           t == op[r].tok
           n == op[r].new
<1>1. Stage(op[r]) \in Holding BY DEF Stage, Holding
<1>2. /\ f \in Family /\ t \in Token /\ n \in Token /\ doc[t] = f /\ doc[n] = f /\ Exists(f)
      /\ fam[f].cur = t
  BY <1>1 DEF Naming, Good, Stage, Holding, Refreshing, SwapMatches
<1>3. NoFamily \notin Family /\ NoToken \notin Token BY Basics DEF Naming
<1>4. /\ fam'[f].cur = n /\ fam'[f].prev = t /\ \A g \in Family : g # f => fam'[g] = fam[g]
  <2>1. fam \in [Family -> FamilyDoc] /\ fam[f] \in FamilyDoc BY <1>2 DEF Naming, TypeOK
  <2> QED BY <1>2, <2>1 DEF FamilyDoc
<1>5. /\ op'[r].pc = "final" /\ op'[r].tok = t /\ op'[r].ans = n
      /\ \A q \in Req : q # r => op'[q] = op[q]
  BY AnswerMove
<1>6. Stage(op'[r]) \notin Holding \cup Seeing BY <1>5 DEF Stage, Holding, Seeing
<1>7. n # t /\ \A g \in Family : fam[g].cur # n BY <1>1, <1>2 DEF Succession
<1>8. \A c \in Token : ~Succ(t, c) BY <1>2 DEF Succession
<1>9. ASSUME NEW p \in Token, NEW c \in Token, Succ(p, c)'
      PROVE  Succ(p, c) \/ (p = t /\ c = n)
  <2>1. p # NoToken BY <1>3
  <2>2. CASE \E g \in Family : fam'[g].prev = p /\ fam'[g].cur = c BY <1>4, <2>1, <2>2 DEF Succ
  <2>3. CASE \E q \in Req : Stage(op'[q]) \in Seeing /\ op'[q].seen.prev = p /\ op'[q].seen.cur = c
    BY <1>5, <1>6, <2>1, <2>3 DEF Succ
  <2>4. CASE \E q \in Req : Stage(op'[q]) \in Answering /\ op'[q].tok = p /\ op'[q].ans = c /\ p # c
    BY <1>5, <2>1, <2>4 DEF Succ
  <2>5. CASE <<p, c>> \in answered' /\ p # c BY <2>1, <2>5 DEF Succ
  <2> QED BY <1>9, <2>2, <2>3, <2>4, <2>5 DEF Succ, Stage
<1>10. \A q \in Req : Stage(op'[q]) \in Holding =>
                        q # r /\ Stage(op[q]) \in Holding /\ op'[q].new = op[q].new
  BY <1>5, <1>6
<1>11. ASSUME NEW p \in Token, NEW c \in Token, Succ(p, c)
       PROVE  /\ doc'[p] \in Family /\ fam'[doc'[p]].state # "none"
              /\ \A g \in Family : fam'[g].cur # p
              /\ \A q \in Req : Stage(op'[q]) \in Holding => op'[q].new # p
  <2>1. /\ doc[p] \in Family /\ Exists(doc[p]) /\ \A g \in Family : fam[g].cur # p
        /\ \A q \in Req : Stage(op[q]) \in Holding => op[q].new # p
    BY <1>11 DEF Succession
  <2>2. p # n BY <1>1, <2>1
  <2>3. Exists(doc[p])' BY <2>1 DEF Grows
  <2> QED BY <1>4, <1>10, <2>1, <2>2, <2>3 DEF Exists
<1>12. /\ doc'[t] \in Family /\ fam'[doc'[t]].state # "none"
       /\ \A g \in Family : fam'[g].cur # t
       /\ \A q \in Req : Stage(op'[q]) \in Holding => op'[q].new # t
  <2>1. fam'[f].state # "none" BY <1>2 DEF Grows, Exists
  <2>2. \A g \in Family : g # f => fam[g].cur # t
    <3>1. ASSUME NEW g \in Family, g # f, fam[g].cur = t PROVE FALSE
      <4>1. Exists(g) BY <1>2, <1>3, <3>1, Basics DEF Naming
      <4> QED BY <1>2, <1>3, <3>1, <4>1 DEF Naming, Documents
    <3> QED BY <3>1
  <2>3. \A q \in Req : Stage(op[q]) \in Holding => op[q].new # t
    BY <1>2 DEF Succession
  <2> QED BY <1>2, <1>4, <1>7, <1>10, <2>1, <2>2, <2>3 DEF Exists
<1>13. ASSUME NEW q \in Req, Stage(op'[q]) \in Holding
       PROVE  \A g \in Family : fam'[g].cur # op'[q].new
  <2>1. /\ q # r /\ Stage(op[q]) \in Holding /\ op'[q].new = op[q].new
        /\ \A g \in Family : fam[g].cur # op[q].new
    BY <1>10, <1>13 DEF Succession
  <2>2. op[q].new # n BY <1>1, <2>1 DEF Succession
  <2> QED BY <1>4, <2>1, <2>2
<1>14. \A q, v \in Req : v # q /\ Stage(op'[v]) \in Holding /\ Stage(op'[q]) \in Holding =>
                           op'[v].new # op'[q].new
  BY <1>10 DEF Succession
<1>15. \A p, c, d \in Token : Succ(p, c)' /\ Succ(p, d)' => c = d
  BY <1>8, <1>9 DEF Succession
<1> HIDE DEF f, t, n
<1> QED BY <1>9, <1>11, <1>12, <1>13, <1>14, <1>15 DEF Succession, Exists, Stage

LEMMA RotateSuccession ==
    ASSUME Naming, Grows, Succession, NEW r \in Req, Rotate(r)
    PROVE  Succession'
<1>1. /\ op \in [Req -> Request] /\ op[r] \in Request /\ op[r].pc = "swap"
      /\ UNCHANGED <<doc, answered>>
  BY DEF Naming, TypeOK, Rotate, At, history
<1>2. CASE /\ UNCHANGED fam /\ AnswerWith(r, op[r].seen.cur)
           /\ op[r].tok \in {op[r].seen.cur, op[r].seen.prev}
  BY <1>1, <1>2, SeenSuccession DEF Seeing
<1>3. CASE UNCHANGED fam /\ RevokeAll(r, {op[r].f})
  <2>1. op'[r].pc = "revoke" /\ \A q \in Req : q # r => op'[q] = op[q] BY <1>3, RevokeMove
  <2>2. Quiet(op'[r]) BY <2>1, QuietPlaces
  <2> QED BY <1>1, <1>3, <2>1, <2>2, QuietSuccession
<1>4. CASE UNCHANGED fam /\ op' = [op EXCEPT ![r].pc = "lost", ![r].new = NoToken, ![r].seen = NoFam]
  <2>1. op'[r].pc = "lost" /\ \A q \in Req : q # r => op'[q] = op[q]
    BY <1>1, <1>4 DEF Request
  <2>2. Quiet(op'[r]) BY <2>1, QuietPlaces
  <2> QED BY <1>1, <1>4, <2>1, <2>2, QuietSuccession
<1>5. CASE /\ SwapMatches(r) /\ AnswerWith(r, op[r].new)
           /\ fam' = [fam EXCEPT ![op[r].f] = [@ EXCEPT !.cur = op[r].new, !.prev = op[r].tok,
                                                        !.retry = TRUE]]
  BY <1>1, <1>5, SwapSuccession
<1> QED BY <1>2, <1>3, <1>4, <1>5 DEF Rotate

(* The actions that neither read nor answer a token. *)
QuietAction(r) ==
    \/ Persist(r) \/ Link(r) \/ Fail(r)
    \/ SweepUser(r) \/ RevokeRead(r) \/ RevokeDoc(r) \/ Revoked(r)
    \/ \E f \in Family : Open(r, f) \/ RevokeOne(r, f) \/ RevokeOthers(r, f)
    \/ \E t \in known : Refresh(r, t) \/ RevokeToken(r, t)
    \/ \E u \in User : MarkUser(r, u)

LEMMA QuietMoves ==
    ASSUME Naming, NEW r \in Req, QuietAction(r)
    PROVE  /\ op'[r].pc \in {"idle", "create", "upgrade", "link", "validate", "sweep", "revoke",
                             "revokeDocs"}
           /\ \A q \in Req : q # r => op'[q] = op[q]
           /\ \A f \in Family : fam'[f].cur = fam[f].cur /\ fam'[f].prev = fam[f].prev
           /\ answered' = answered
<1>1. /\ op \in [Req -> Request] /\ op[r] \in Request /\ fam \in [Family -> FamilyDoc]
  BY DEF Naming, TypeOK
<1>2. IdleOp.pc = "idle" BY DEF IdleOp
<1>3. CASE Persist(r) BY <1>2, <1>3, EndMove, RevokeMove DEF Persist
<1>4. CASE Link(r)
  <2>1. CASE op' = [op EXCEPT ![r].pc = "validate"]
    BY <1>1, <1>4, <2>1 DEF Link, history, Request
  <2>2. CASE RevokeAll(r, {op[r].f})
    <3>1. op'[r].pc = "revoke" /\ \A q \in Req : q # r => op'[q] = op[q] BY <2>2, RevokeMove
    <3> QED BY <1>4, <3>1 DEF Link, history
  <2> QED BY <1>4, <2>1, <2>2 DEF Link
<1>5. CASE SweepUser(r)
  <2>1. op'[r].pc = "revoke" /\ \A q \in Req : q # r => op'[q] = op[q]
    BY <1>1, <1>5 DEF SweepUser, Request
  <2> QED BY <1>5, <2>1 DEF SweepUser, store, history
<1>6. CASE RevokeRead(r)
  <2>1. op'[r].pc \in {"revoke", "revokeDocs"} /\ \A q \in Req : q # r => op'[q] = op[q]
    BY <1>1, <1>6 DEF RevokeRead, Request
  <2> QED BY <1>6, <2>1 DEF RevokeRead, store, history
<1>7. CASE RevokeDoc(r)
  <2>1. op'[r].pc \in {"revoke", "revokeDocs"} /\ \A q \in Req : q # r => op'[q] = op[q]
    BY <1>1, <1>7 DEF RevokeDoc, Request, At
  <2>2. \A f \in Family : fam'[f].cur = fam[f].cur /\ fam'[f].prev = fam[f].prev
    BY <1>1, <1>7 DEF RevokeDoc, FamilyDoc, Request
  <2> QED BY <1>7, <2>1, <2>2 DEF RevokeDoc, history
<1>8. CASE Revoked(r) \/ Fail(r)
  BY <1>2, <1>8, EndMove DEF Revoked, Fail, store, history
<1>9. CASE \E f \in Family : Open(r, f) \/ RevokeOne(r, f) \/ RevokeOthers(r, f)
  <2>1. PICK f \in Family : Open(r, f) \/ RevokeOne(r, f) \/ RevokeOthers(r, f) BY <1>9
  <2>2. CASE Open(r, f)
    <3>1. op'[r].pc = "create" /\ \A q \in Req : q # r => op'[q] = op[q]
      BY <1>1, <2>2 DEF Open, IdleOp
    <3> QED BY <2>2, <3>1 DEF Open, store, history
  <2>3. CASE RevokeOne(r, f) BY <2>3, RevokeMove DEF RevokeOne, store, history
  <2>4. CASE RevokeOthers(r, f) BY <2>4, RevokeMove DEF RevokeOthers, store, history
  <2> QED BY <2>1, <2>2, <2>3, <2>4
<1>10. CASE \E t \in known : Refresh(r, t) \/ RevokeToken(r, t)
  <2>1. PICK t \in known : Refresh(r, t) \/ RevokeToken(r, t) BY <1>10
  <2>2. CASE Refresh(r, t)
    <3>1. op'[r].pc \in {"upgrade", "validate"} /\ \A q \in Req : q # r => op'[q] = op[q]
      BY <1>1, <2>2 DEF Refresh, IdleOp
    <3> QED BY <2>2, <3>1 DEF Refresh, store, history
  <2>3. CASE RevokeToken(r, t) BY <2>3, RevokeMove DEF RevokeToken, history
  <2> QED BY <2>1, <2>2, <2>3
<1>11. CASE \E u \in User : MarkUser(r, u)
  <2>1. PICK u \in User : MarkUser(r, u) BY <1>11
  <2>2. op'[r].pc = "sweep" /\ \A q \in Req : q # r => op'[q] = op[q]
    BY <1>1, <2>1 DEF MarkUser, IdleOp
  <2> QED BY <2>1, <2>2 DEF MarkUser, history
<1> QED BY <1>3, <1>4, <1>5, <1>6, <1>7, <1>8, <1>9, <1>10, <1>11 DEF QuietAction

LEMMA NextSuccession == ASSUME Naming, Grows, Succession, Next PROVE Succession'
<1>1. ASSUME NEW r \in Req, QuietAction(r) PROVE Succession'
  <2>1. Quiet(op'[r]) BY <1>1, QuietMoves, QuietPlaces
  <2> QED BY <1>1, <2>1, QuietMoves, QuietSuccession
<1>2. ASSUME NEW f \in Family, CloseRetryWindow(f) PROVE Succession'
  <2>1. \A g \in Family : fam'[g].cur = fam[g].cur /\ fam'[g].prev = fam[g].prev
    BY <1>2 DEF CloseRetryWindow, Naming, TypeOK, FamilyDoc
  <2>2. \A p, c \in Token : Succ(p, c)' => Succ(p, c)
    BY <1>2, <2>1 DEF CloseRetryWindow, Succ, history
  <2> QED BY <1>2, <2>1, <2>2, KeepSuccession DEF CloseRetryWindow
<1>3. ASSUME NEW r \in Req, FirstValidate(r) PROVE Succession'
  BY <1>3, ValidateSuccession DEF FirstValidate, At, Refreshing
<1>4. ASSUME NEW r \in Req, RotateRead(r) PROVE Succession'
  BY <1>4, ValidateSuccession DEF RotateRead, At, Refreshing, Holding
<1>5. ASSUME NEW r \in Req, LostRead(r) PROVE Succession'
  BY <1>5, ValidateSuccession DEF LostRead, At, Refreshing
<1>6. ASSUME NEW r \in Req, FinalValidate(r) PROVE Succession'
  BY <1>6, ValidateSuccession DEF FinalValidate, At, Refreshing, Answering
<1> QED BY <1>1, <1>2, <1>3, <1>4, <1>5, <1>6, CheckParentSuccession, CreateSuccession,
           UpgradeSuccession, CandidateSuccession, RotateSuccession, SettleSuccession,
           AnswerSuccession
    DEF Next, Step, QuietAction

LEMMA InitSuccession == Init => Succession
<1> SUFFICES ASSUME Init PROVE Succession OBVIOUS
<1>1. /\ fam = [f \in Family |-> NoFam] /\ op = [r \in Req |-> IdleOp] /\ answered = {}
  BY DEF Init
<1>2. Quiet(IdleOp) BY QuietPlaces DEF IdleOp
<1>3. \A p, c \in Token : ~Succ(p, c)
  BY <1>1, <1>2 DEF Succ, Quiet, NoFam
<1> QED BY <1>1, <1>2, <1>3 DEF Succession, Quiet

-----------------------------------------------------------------------------
(* Closure: what a revocation has ended stays closed *)

Closes ==
    /\ linked \subseteq linked' /\ marked \subseteq marked'
    /\ \A f \in Family : Over(f) => Over(f)'

(* Only a link can take from what is over, and it takes nothing marked. *)
LEMMA ClosesRule ==
    ASSUME Grows, marked \subseteq marked', linked \subseteq linked',
           \A f \in linked' : f \in linked \/ f \notin marked
    PROVE  Closes
BY DEF Closes, Over, Grows

LEMMA StepCloses == ASSUME Naming, Grows, Next PROVE Closes
<1>1. marked \subseteq marked'
  BY ZenonT(60) DEF Next, Step, CheckParent, Create, Persist, Upgrade, Link, FirstValidate, Candidate,
         RotateRead, Rotate, LostRead, Settle, FinalValidate, Answer, SweepUser, RevokeRead,
         RevokeDoc, Revoked, Fail, Open, RevokeOne, RevokeOthers, Refresh, RevokeToken, MarkUser,
         CloseRetryWindow, store
<1>2. (\E r \in Req : Link(r)) \/ linked' = linked
  BY ZenonT(60) DEF Next, Step, CheckParent, Create, Persist, Upgrade, FirstValidate, Candidate,
         RotateRead, Rotate, LostRead, Settle, FinalValidate, Answer, SweepUser, RevokeRead,
         RevokeDoc, Revoked, Fail, Open, RevokeOne, RevokeOthers, Refresh, RevokeToken, MarkUser,
         CloseRetryWindow, store
<1>3. linked \subseteq linked' /\ \A f \in linked' : f \in linked \/ f \notin marked
  BY <1>2 DEF Link
<1> QED BY <1>1, <1>3, ClosesRule

LEMMA EndedStays == ASSUME Closes, NEW f \in Family, Ended(f) PROVE Ended(f)'
BY DEF Closes, Ended

LEMMA OtherClosure ==
    ASSUME Naming, Grows, Closes, Closure, NEW q \in Req, op'[q] = op[q]
    PROVE  Revoking(op[q])' /\ Linked(op[q])'
<1>1. op[q] \in Request /\ Revoking(op[q]) /\ Linked(op[q])
  BY DEF Naming, TypeOK, Closure
<1>2. Revoking(op[q])'
  <2>1. op[q].todo \subseteq Family /\ op[q].covers \subseteq Family BY <1>1 DEF Request
  <2>2. \A f \in op[q].todo : Exists(f) \/ f \in marked => fam'[f].state # "none" \/ f \in marked'
    BY <2>1 DEF Grows, Closes, Exists
  <2>3. \A f \in op[q].covers : Ended(f) => Ended(f)' BY <2>1, EndedStays
  <2>4. marked \subseteq marked' BY DEF Closes
  <2> QED BY <1>1, <2>2, <2>3, <2>4 DEF Revoking, InWork, Exists, Ended, Over
<1>3. Linked(op[q])'
  BY <1>1 DEF Linked, Closes, Grows, Stage
<1> QED BY <1>2, <1>3

LEMMA MoveClosure ==
    ASSUME Naming, Grows, Closes, Closure, NEW r \in Req,
           \A q \in Req : q # r => op'[q] = op[q],
           Revoking(op[r])', Linked(op[r])',
           \A t \in Token : doc'[t] = doc[t] \/ (doc'[t] \in Family /\ fam'[doc'[t]].state # "none"),
           \A f \in Family : fam'[f].state # "none" /\ Parent[f] \in Legacy =>
                               fam[f].state # "none" \/ Parent[f] \in linked',
           \A f \in barred' : f \in barred \/ Ended(f)',
           \A x \in answered' : x \in answered \/ (doc'[x[1]] \in Legacy => doc'[x[1]] \in linked')
    PROVE  Closure'
<1>1. \A q \in Req : Revoking(op[q])' /\ Linked(op[q])' BY OtherClosure
<1>2. \A t \in Token \ LegacyToken : doc'[t] \in Family => fam'[doc'[t]].state # "none"
  BY DEF Closure, Grows, Exists
<1>3. \A f \in barred' : Ended(f)'
  BY EndedStays DEF Closure, Naming, TypeOK
<1>4. \A x \in answered' : doc'[x[1]] \in Legacy => doc'[x[1]] \in linked'
  <2>1. ASSUME NEW x \in answered, doc'[x[1]] \in Legacy PROVE doc'[x[1]] \in linked'
    <3>1. x[1] \in Token /\ doc[x[1]] # NoFamily BY DEF Naming, TypeOK, Documents
    <3>2. doc'[x[1]] = doc[x[1]] BY <3>1 DEF Grows
    <3> QED BY <2>1, <3>2 DEF Closure, Closes
  <2> QED BY <2>1
<1>5. \A f \in Family : fam'[f].state # "none" /\ Parent[f] \in Legacy => Parent[f] \in linked'
  BY DEF Closure, Closes, Exists
<1> QED BY <1>1, <1>2, <1>3, <1>4, <1>5 DEF Closure, Exists, Ended, Over

(* A step that leaves the documents alone. *)
LEMMA StayClosure ==
    ASSUME Naming, Grows, Closes, Closure, NEW r \in Req,
           \A q \in Req : q # r => op'[q] = op[q],
           Revoking(op[r])', Linked(op[r])', UNCHANGED <<fam, doc, answered, barred>>
    PROVE  Closure'
BY MoveClosure

LEMMA NotRevoking ==
    ASSUME NEW r \in Req, op'[r].pc \notin {"sweep", "revoke", "revokeDocs"}
    PROVE  Revoking(op[r])'
BY DEF Revoking

LEMMA NotLinked ==
    ASSUME NEW r \in Req, op'[r].pc \in {"idle", "upgrade", "link", "sweep", "revoke", "revokeDocs"}
    PROVE  Linked(op[r])'
BY DEF Linked, Stage, Refreshing, Opening

LEMMA EndClosure ==
    ASSUME Naming, Grows, Closes, Closure, NEW r \in Req, End(r),
           UNCHANGED <<fam, doc, answered, barred>>
    PROVE  Closure'
<1>1. op'[r].pc = "idle" /\ \A q \in Req : q # r => op'[q] = op[q] BY EndMove DEF IdleOp
<1> QED BY <1>1, NotRevoking, NotLinked, StayClosure

LEMMA RevokeClosure ==
    ASSUME Naming, Grows, Closes, Closure, NEW r \in Req, NEW S \in SUBSET Family, RevokeAll(r, S),
           \A f \in S : Exists(f) \/ f \in marked',
           UNCHANGED <<fam, doc, answered, barred>>
    PROVE  Closure'
<1>1. /\ op'[r].pc = "revoke" /\ op'[r].todo = S /\ op'[r].covers = WithChildren(S)
      /\ op'[r].docs = {} /\ \A q \in Req : q # r => op'[q] = op[q]
  BY RevokeMove
<1>2. Revoking(op[r])'
  BY <1>1 DEF Revoking, InWork, WithChildren, Exists
<1> QED BY <1>1, <1>2, NotLinked, StayClosure

LEMMA MarkClosure ==
    ASSUME Naming, Grows, Closes, Closure, NEW r \in Req, NEW u \in User, MarkUser(r, u)
    PROVE  Closure'
<1>1. /\ op \in [Req -> Request] /\ Legacy \subseteq Family /\ UNCHANGED <<fam, doc, answered, barred>>
      /\ marked' = marked \cup {f \in Legacy : Owner[f] = u}
  BY ConstantsAssumption DEF Naming, TypeOK, MarkUser, history
<1>2. /\ op'[r].pc = "sweep" /\ op'[r].docs = {} /\ op'[r].covers = {f \in Legacy : Owner[f] = u}
      /\ op'[r].todo = {f \in Family : Owner[f] = u}
      /\ \A q \in Req : q # r => op'[q] = op[q]
  BY <1>1 DEF MarkUser, IdleOp
<1>3. Revoking(op[r])' BY <1>1, <1>2 DEF Revoking
<1> QED BY <1>1, <1>2, <1>3, NotLinked, StayClosure

(* A legacy token that is marked and has no session will never have one. *)
LEMMA NotLiveOver ==
    ASSUME Naming, NEW f \in Family, ~Live(f), Exists(f) \/ f \in marked
    PROVE  Over(f)
BY DEF Naming, TypeOK, FamilyDoc, Live, Over, Exists

LEMMA SweepClosure ==
    ASSUME Naming, Grows, Closes, Closure, NEW r \in Req, SweepUser(r)
    PROVE  Closure'
<1> DEFINE families == {f \in op[r].todo : Live(f)}
<1>1. /\ op \in [Req -> Request] /\ op[r] \in Request /\ op[r].pc = "sweep" /\ Revoking(op[r])
      /\ UNCHANGED <<fam, doc, linked, marked, answered, barred>>
  BY DEF Naming, TypeOK, Closure, SweepUser, At, store, history
<1>2. /\ op'[r].pc = "revoke" /\ op'[r].todo = families /\ op'[r].docs = op[r].docs
      /\ op'[r].covers = op[r].covers \cup WithChildren(families)
      /\ \A q \in Req : q # r => op'[q] = op[q]
  BY <1>1 DEF SweepUser, Request
<1>3. /\ op[r].docs = {} /\ op[r].covers \subseteq op[r].todo \cap marked
      /\ op[r].todo \subseteq Family
  BY <1>1 DEF Revoking, Request
<1>4. \A f \in op[r].covers : f \in families \/ Over(f) BY <1>3, NotLiveOver
<1>5. \A f \in WithChildren(families) : f \in families \/ (Parent[f] \in Family /\ Parent[f] \in families)
  BY <1>3 DEF WithChildren
<1>6. \A f \in families : Exists(f) BY DEF Live, Exists
<1>7. \A f \in Family : Over(f) => Over(f)' BY DEF Closes
<1>8. Revoking(op[r])'
  <2>1. \A f \in op'[r].covers : \/ Ended(f)' \/ f \in families
                                 \/ Parent[f] \in Family /\ Parent[f] \in families
    BY <1>2, <1>3, <1>4, <1>5, <1>7 DEF Ended
  <2> HIDE DEF families
  <2> QED BY <1>1, <1>2, <1>3, <1>6, <2>1 DEF Revoking, InWork, Exists, Ended, Over
<1> QED BY <1>1, <1>2, <1>8, NotLinked, StayClosure

LEMMA RevokeReadClosure ==
    ASSUME Naming, Grows, Closes, Closure, NEW r \in Req, RevokeRead(r)
    PROVE  Closure'
<1>1. /\ op \in [Req -> Request] /\ op[r] \in Request /\ op[r].pc = "revoke" /\ Revoking(op[r])
      /\ UNCHANGED <<fam, doc, linked, marked, answered, barred>>
  BY DEF Naming, TypeOK, Closure, RevokeRead, At, store, history
<1>2. PICK g \in op[r].todo :
        op' = [op EXCEPT ![r].pc = IF Live(g) THEN "revokeDocs" ELSE "revoke",
                         ![r].todo = @ \ {g},
                         ![r].docs = IF Live(g) THEN {f \in WithChildren({g}) : Live(f)} ELSE {}]
  BY DEF RevokeRead
<1>3. /\ op'[r].pc = IF Live(g) THEN "revokeDocs" ELSE "revoke"
      /\ op'[r].todo = op[r].todo \ {g} /\ op'[r].covers = op[r].covers
      /\ op'[r].docs = IF Live(g) THEN {f \in WithChildren({g}) : Live(f)} ELSE {}
      /\ \A q \in Req : q # r => op'[q] = op[q]
  BY <1>1, <1>2 DEF Request
<1>4. /\ op[r].docs = {} /\ op[r].todo \subseteq Family /\ op[r].covers \subseteq Family
      /\ \A f \in op[r].todo : Exists(f) \/ f \in marked
      /\ \A f \in op[r].covers : \/ Ended(f) \/ f \in op[r].todo
                                 \/ Parent[f] \in Family /\ Parent[f] \in op[r].todo
  BY <1>1 DEF Revoking, Request, InWork
<1>5. g \in Family /\ (g \in op'[r].docs \/ Over(g))
  <2>1. g \in Family BY <1>2, <1>4
  <2>2. CASE Live(g) BY <1>3, <2>1, <2>2 DEF WithChildren
  <2>3. CASE ~Live(g) BY <1>2, <1>4, <2>1, <2>3, NotLiveOver
  <2> QED BY <2>1, <2>2, <2>3
<1>6. \A f \in op[r].covers : \/ Ended(f) \/ f \in op'[r].todo \/ f \in op'[r].docs
                              \/ /\ Parent[f] \in Family
                                 /\ Parent[f] \in op'[r].todo \/ Parent[f] \in op'[r].docs
  BY <1>3, <1>4, <1>5 DEF Ended
<1>7. \A f \in op[r].covers : Ended(f) => Ended(f)' BY <1>4, EndedStays
<1>8. op'[r].pc \in {"revoke", "revokeDocs"} /\ (op'[r].pc = "revoke" => op'[r].docs = {})
  BY <1>3
<1>9. Revoking(op[r])'
  <2>1. \A f \in op'[r].todo : fam'[f].state # "none" \/ f \in marked'
    BY <1>1, <1>3, <1>4 DEF Exists
  <2> QED BY <1>3, <1>6, <1>7, <1>8, <2>1 DEF Revoking, InWork, Exists, Ended, Over
<1> QED BY <1>1, <1>3, <1>8, <1>9, NotLinked, StayClosure

LEMMA RevokeDocClosure ==
    ASSUME Naming, Grows, Closes, Closure, NEW r \in Req, RevokeDoc(r)
    PROVE  Closure'
<1>1. /\ op \in [Req -> Request] /\ op[r] \in Request /\ op[r].pc = "revokeDocs" /\ Revoking(op[r])
      /\ fam \in [Family -> FamilyDoc] /\ Good(op[r])
      /\ UNCHANGED <<doc, linked, marked, answered, barred>>
  BY DEF Naming, TypeOK, Closure, RevokeDoc, At, history
<1>2. PICK g \in op[r].docs :
        /\ fam' = [fam EXCEPT ![g].state = "revoked"]
        /\ op' = [op EXCEPT ![r].docs = @ \ {g},
                            ![r].pc = IF op[r].docs = {g} THEN "revoke" ELSE @]
  BY DEF RevokeDoc
<1>3. /\ op'[r].pc = IF op[r].docs = {g} THEN "revoke" ELSE "revokeDocs"
      /\ op'[r].todo = op[r].todo /\ op'[r].covers = op[r].covers
      /\ op'[r].docs = op[r].docs \ {g} /\ \A q \in Req : q # r => op'[q] = op[q]
  BY <1>1, <1>2 DEF Request
<1>4. /\ op[r].docs \subseteq Family /\ op[r].todo \subseteq Family /\ op[r].covers \subseteq Family
      /\ \A f \in op[r].todo : Exists(f) \/ f \in marked
      /\ \A f \in op[r].covers : \/ Ended(f) \/ f \in op[r].todo \/ f \in op[r].docs
                                 \/ /\ Parent[f] \in Family
                                    /\ Parent[f] \in op[r].todo \/ Parent[f] \in op[r].docs
  BY <1>1 DEF Revoking, Request, InWork
<1>5. g \in Family /\ Exists(g) /\ fam'[g].state = "revoked"
      /\ \A f \in Family : f # g => fam'[f] = fam[f]
  BY <1>1, <1>2, <1>4 DEF Good, FamilyDoc
<1>6. Over(g)' BY <1>5 DEF Over
<1>7. \A f \in op[r].covers : Ended(f) => Ended(f)' BY <1>4, EndedStays
<1>8. \A f \in op[r].covers : \/ Ended(f)' \/ f \in op'[r].todo \/ f \in op'[r].docs
                              \/ /\ Parent[f] \in Family
                                 /\ Parent[f] \in op'[r].todo \/ Parent[f] \in op'[r].docs
  BY <1>3, <1>4, <1>6, <1>7 DEF Ended
<1>9. op'[r].pc \in {"revoke", "revokeDocs"} /\ (op'[r].pc = "revoke" => op'[r].docs = {})
  BY <1>3
<1>10. Revoking(op[r])'
  <2>1. \A f \in op'[r].todo : fam'[f].state # "none" \/ f \in marked'
    BY <1>1, <1>3, <1>4 DEF Exists, Grows
  <2> QED BY <1>3, <1>8, <1>9, <2>1 DEF Revoking, InWork, Exists, Ended, Over
<1>11. \A f \in Family : fam'[f].state # "none" => fam[f].state # "none" BY <1>5 DEF Exists
<1> QED BY <1>1, <1>3, <1>9, <1>10, <1>11, NotLinked, MoveClosure

LEMMA RevokedClosure ==
    ASSUME Naming, Grows, Closes, Closure, NEW r \in Req, Revoked(r)
    PROVE  Closure'
<1>1. /\ op[r] \in Request /\ op[r].pc = "revoke" /\ op[r].todo = {} /\ End(r) /\ Revoking(op[r])
      /\ UNCHANGED <<fam, doc, linked, marked, answered>>
      /\ barred' = barred \cup {f \in op[r].covers : fam[f].state # "revoked"}
  BY DEF Naming, TypeOK, Closure, Revoked, At, store
<1>2. op[r].covers \subseteq Family /\ \A f \in op[r].covers : Ended(f)
  BY <1>1 DEF Revoking, Request, InWork
<1>3. \A f \in barred' : f \in barred \/ Ended(f)' BY <1>1, <1>2, EndedStays
<1>4. op'[r].pc = "idle" /\ \A q \in Req : q # r => op'[q] = op[q] BY <1>1, EndMove DEF IdleOp
<1> QED BY <1>1, <1>3, <1>4, NotRevoking, NotLinked, MoveClosure

LEMMA RevocationClosure ==
    ASSUME Naming, Grows, Closes, Closure, NEW r \in Req, NEW f \in Family,
           RevokeOne(r, f) \/ RevokeOthers(r, f)
    PROVE  Closure'
<1>1. UNCHANGED <<fam, doc, answered, barred>> BY DEF RevokeOne, RevokeOthers, store, history
<1>2. CASE RevokeOne(r, f)
  BY <1>1, <1>2, RevokeClosure DEF RevokeOne, Exists
<1>3. CASE RevokeOthers(r, f)
  <2> DEFINE S == {g \in Family \ {f} : Live(g) /\ Owner[g] = Owner[f] /\ Parent[g] = NoFamily}
  <2>1. S \in SUBSET Family /\ RevokeAll(r, S) /\ \A g \in S : Exists(g)
    BY <1>3 DEF RevokeOthers, Live, Exists
  <2> HIDE DEF S
  <2> QED BY <1>1, <2>1, RevokeClosure
<1> QED BY <1>2, <1>3

LEMMA RevokeTokenClosure ==
    ASSUME Naming, Grows, Closes, Closure, NEW r \in Req, NEW t \in known, RevokeToken(r, t)
    PROVE  Closure'
<1>1. t \in Token /\ doc[t] \in Family BY Basics DEF Naming, TypeOK, Documents
<1>2. /\ RevokeAll(r, {doc[t]}) /\ UNCHANGED <<fam, doc, answered, barred>>
      /\ marked' = marked \cup {f \in Legacy : t \in LegacyToken /\ doc[t] = f}
  BY DEF RevokeToken, history
<1>3. Exists(doc[t]) \/ doc[t] \in marked'
  BY <1>1, <1>2 DEF Naming, Documents, Closure
<1> QED BY <1>1, <1>2, <1>3, RevokeClosure

LEMMA OpenClosure ==
    ASSUME Naming, Grows, Closes, Closure, NEW r \in Req, NEW f \in Family, Open(r, f)
    PROVE  Closure'
<1>1. /\ op \in [Req -> Request] /\ UNCHANGED <<fam, doc, linked, answered, barred>>
      /\ Parent[f] # NoFamily => HasClient(Parent[f])
      /\ op' = [op EXCEPT ![r] = [IdleOp EXCEPT !.pc = "create", !.f = f, !.tok = fresh]]
  BY DEF Naming, TypeOK, Open, store, history
<1>2. /\ op'[r].pc = "create" /\ op'[r].f = f /\ \A q \in Req : q # r => op'[q] = op[q]
  BY <1>1 DEF IdleOp
<1>3. Parent[f] \in Legacy => Parent[f] \in linked
  <2> SUFFICES ASSUME Parent[f] \in Legacy PROVE Parent[f] \in linked OBVIOUS
  <2>1. Parent[f] # NoFamily BY ConstantsAssumption
  <2>2. PICK x \in answered : doc[x[1]] = Parent[f] BY <1>1, <2>1 DEF HasClient
  <2> QED BY <2>2 DEF Closure
<1>4. Linked(op[r])' BY <1>1, <1>2, <1>3 DEF Linked, Stage, Refreshing, Opening
<1> QED BY <1>1, <1>2, <1>4, NotRevoking, StayClosure

LEMMA CreateClosure ==
    ASSUME Naming, Grows, Closes, Closure, NEW r \in Req, Create(r)
    PROVE  Closure'
<1>1. /\ op \in [Req -> Request] /\ op[r] \in Request /\ op[r].pc = "create" /\ Linked(op[r])
      /\ op' = [op EXCEPT ![r].pc = "persist"] /\ UNCHANGED <<doc, linked, answered, barred>>
      /\ fam' = [fam EXCEPT ![op[r].f] = [NoFam EXCEPT !.state = "live", !.cur = op[r].tok]]
  BY DEF Naming, TypeOK, Create, At, Closure, history
<1>2. /\ op'[r].pc = "persist" /\ op'[r].f = op[r].f /\ \A q \in Req : q # r => op'[q] = op[q]
  BY <1>1 DEF Request
<1>3. Parent[op[r].f] \in Legacy => Parent[op[r].f] \in linked BY <1>1 DEF Linked, Opening
<1>4. Linked(op[r])' BY <1>1, <1>2, <1>3 DEF Linked, Stage, Refreshing, Opening
<1>5. \A f \in Family : f # op[r].f => fam'[f] = fam[f] BY <1>1 DEF Naming, TypeOK
<1> QED BY <1>1, <1>2, <1>3, <1>4, <1>5, NotRevoking, MoveClosure

LEMMA PersistClosure ==
    ASSUME Naming, Grows, Closes, Closure, NEW r \in Req, Persist(r)
    PROVE  Closure'
<1>1. /\ Good(op[r]) /\ op[r].pc = "persist" /\ UNCHANGED <<fam, linked, marked, answered, barred>>
  BY DEF Naming, Persist, At
<1>2. /\ op[r].f \in Family /\ op[r].tok \in Token /\ Exists(op[r].f)
  BY <1>1, Basics DEF Naming, Good, Opening
<1>3. CASE RevokeAll(r, {op[r].f}) /\ UNCHANGED doc
  BY <1>1, <1>2, <1>3, RevokeClosure
<1>4. CASE doc' = [doc EXCEPT ![op[r].tok] = op[r].f] /\ End(r)
  <2>1. op'[r].pc = "idle" /\ \A q \in Req : q # r => op'[q] = op[q]
    BY <1>4, EndMove DEF IdleOp
  <2>2. \A t \in Token : doc'[t] = doc[t] \/ doc'[t] = op[r].f
    BY <1>2, <1>4 DEF Naming, TypeOK
  <2> QED BY <1>1, <1>2, <2>1, <2>2, NotRevoking, NotLinked, MoveClosure DEF Exists
<1> QED BY <1>3, <1>4 DEF Persist

LEMMA RefreshClosure ==
    ASSUME Naming, Grows, Closes, Closure, NEW r \in Req, NEW t \in known, Refresh(r, t)
    PROVE  Closure'
<1>1. /\ op \in [Req -> Request] /\ UNCHANGED <<fam, doc, linked, answered, barred>>
  BY DEF Naming, TypeOK, Refresh, store, history
<1>2. /\ op'[r].pc = IF doc[t] \in Legacy \ linked THEN "upgrade" ELSE "validate"
      /\ op'[r].f = doc[t] /\ \A q \in Req : q # r => op'[q] = op[q]
  BY <1>1 DEF Refresh, IdleOp
<1>3. Linked(op[r])' BY <1>1, <1>2 DEF Linked, Stage, Refreshing, Opening
<1> QED BY <1>1, <1>2, <1>3, NotRevoking, StayClosure

LEMMA UpgradeClosure ==
    ASSUME Naming, Grows, Closes, Closure, NEW r \in Req, Upgrade(r)
    PROVE  Closure'
<1>1. /\ op \in [Req -> Request] /\ op[r] \in Request /\ Good(op[r]) /\ op[r].pc = "upgrade"
      /\ op' = [op EXCEPT ![r].pc = "link"] /\ UNCHANGED <<doc, linked, answered, barred>>
      /\ fam' = IF fam[op[r].f].state = "none"
                THEN [fam EXCEPT ![op[r].f] = [NoFam EXCEPT !.state = "live", !.cur = op[r].tok]]
                ELSE fam
  BY DEF Naming, TypeOK, Upgrade, At, history
<1>2. op'[r].pc = "link" /\ \A q \in Req : q # r => op'[q] = op[q] BY <1>1 DEF Request
<1>3. op[r].f \in Legacy BY <1>1 DEF Good, Upgrading
<1>4. Parent[op[r].f] = NoFamily /\ NoFamily \notin Legacy BY <1>3, ConstantsAssumption
<1>5. \A f \in Family : f # op[r].f => fam'[f] = fam[f] BY <1>1 DEF Naming, TypeOK
<1> QED BY <1>1, <1>2, <1>4, <1>5, NotRevoking, NotLinked, MoveClosure

LEMMA LinkClosure ==
    ASSUME Naming, Grows, Closes, Closure, NEW r \in Req, Link(r)
    PROVE  Closure'
<1>1. /\ op \in [Req -> Request] /\ op[r] \in Request /\ Good(op[r]) /\ op[r].pc = "link"
      /\ UNCHANGED <<fam, doc, marked, answered, barred>>
  BY DEF Naming, TypeOK, Link, At, history
<1>2. CASE RevokeAll(r, {op[r].f})
  <2>1. op[r].f \in Family /\ Exists(op[r].f) BY <1>1 DEF Good, Stage, Upgrading
  <2> QED BY <1>1, <1>2, <2>1, RevokeClosure
<1>3. CASE linked' = linked \cup {op[r].f} /\ op' = [op EXCEPT ![r].pc = "validate"]
  <2>1. /\ op'[r].pc = "validate" /\ op'[r].f = op[r].f /\ \A q \in Req : q # r => op'[q] = op[q]
    BY <1>1, <1>3 DEF Request
  <2>2. Linked(op[r])' BY <1>3, <2>1 DEF Linked, Stage, Refreshing, Opening
  <2> QED BY <1>1, <2>1, <2>2, NotRevoking, StayClosure
<1> QED BY <1>2, <1>3 DEF Link

(* A step within a refresh, short of its last look at the family. *)
LEMMA WithinClosure ==
    ASSUME Naming, Grows, Closes, Closure, NEW r \in Req, Stage(op[r]) \in Refreshing,
           op'[r].f = op[r].f, Stage(op'[r]) \in Refreshing, Stage(op'[r]) # "answer",
           op'[r].pc \in Refreshing \cup {"parent"}, \A q \in Req : q # r => op'[q] = op[q],
           \A t \in Token : doc'[t] = doc[t] \/ (doc'[t] \in Family /\ fam'[doc'[t]].state # "none"),
           \A f \in Family : fam'[f].state # "none" => fam[f].state # "none",
           UNCHANGED <<linked, answered, barred>>
    PROVE  Closure'
<1>1. Linked(op[r])' BY DEF Linked, Closure, Stage, Refreshing, Opening
<1>2. Revoking(op[r])' BY NotRevoking DEF Refreshing
<1> QED BY <1>1, <1>2, MoveClosure

LEMMA ValidateClosure ==
    ASSUME Naming, Grows, Closes, Closure, NEW r \in Req,
           NEW then \in {"candidate", "swap", "settle", "answer"},
           Validate(r, op[r].f, then), op[r].pc \in Refreshing,
           UNCHANGED <<store, fresh, history>>
    PROVE  Closure'
<1>1. /\ op[r].pc # "parent" /\ Stage(op[r]) = op[r].pc BY DEF Refreshing, Stage
<1>2. UNCHANGED <<fam, doc, linked, marked, answered, barred>> BY DEF store, history
<1>3. CASE op'[r] = IdleOp
  <2>1. op'[r].pc = "idle" BY <1>3 DEF IdleOp
  <2> QED BY <1>1, <1>2, <2>1, ValidateMove, NotRevoking, NotLinked, StayClosure
<1>4. CASE op'[r] # IdleOp
  <2>1. /\ Live(op[r].f) /\ Stage(op'[r]) = then /\ \A q \in Req : q # r => op'[q] = op[q]
        /\ op'[r].f = op[r].f /\ (op'[r].late <=> op[r].f \in barred /\ then = "answer")
        /\ op'[r].pc = IF Parent[op[r].f] = NoFamily THEN then ELSE "parent"
    BY <1>1, <1>4, ValidateMove
  <2>2. CASE then # "answer"
    <3>1. Stage(op'[r]) \in Refreshing /\ op'[r].pc \in Refreshing \cup {"parent"}
      BY <2>1, <2>2 DEF Refreshing
    <3> QED BY <1>1, <1>2, <2>1, <2>2, <3>1, WithinClosure
  <2>3. CASE then = "answer"
    <3> DEFINE f == op[r].f
    <3>1. f \in Family /\ fam[f].state = "live" /\ (f \in Legacy => f \in linked)
      BY <1>1, <2>1 DEF Live, Closure, Linked
    <3>2. f \in barred => Parent[f] \in Family /\ fam[Parent[f]].state = "revoked"
      <4> SUFFICES ASSUME f \in barred PROVE Parent[f] \in Family /\ fam[Parent[f]].state = "revoked"
        OBVIOUS
      <4>1. marked \subseteq Legacy BY DEF Naming, TypeOK
      <4>2. Ended(f) /\ ~Over(f) BY <3>1, <4>1 DEF Closure, Over
      <4>3. Parent[f] \in Family /\ Over(Parent[f]) BY <4>2 DEF Ended
      <4>4. Parent[f] \in Legacy => Parent[f] \in linked BY <3>1 DEF Closure, Exists
      <4> QED BY <4>1, <4>3, <4>4 DEF Over
    <3>3. Linked(op[r])'
      BY <1>2, <2>1, <2>3, <3>1, <3>2, ConstantsAssumption DEF Linked, Stage, Opening
    <3>4. op'[r].pc \in {"answer", "parent"} BY <2>1, <2>3
    <3> QED BY <1>2, <2>1, <3>3, <3>4, NotRevoking, StayClosure
  <2> QED BY <2>2, <2>3
<1> QED BY <1>3, <1>4

LEMMA CheckParentClosure ==
    ASSUME Naming, Grows, Closes, Closure, NEW r \in Req, CheckParent(r)
    PROVE  Closure'
<1>1. /\ op \in [Req -> Request] /\ op[r] \in Request /\ op[r].pc = "parent"
      /\ op[r].ret \in {"candidate", "swap", "settle", "answer"} /\ Linked(op[r])
      /\ UNCHANGED <<fam, doc, linked, answered, barred>>
  BY DEF Naming, TypeOK, CheckParent, At, Good, Closure, store, history
<1>2. CASE End(r) BY <1>1, <1>2, EndClosure
<1>3. CASE Live(Parent[op[r].f]) /\ op' = [op EXCEPT ![r].pc = op[r].ret, ![r].ret = "idle"]
  <2>1. /\ op'[r].pc = op[r].ret /\ op'[r].f = op[r].f /\ op'[r].late = op[r].late
        /\ Stage(op'[r]) = Stage(op[r]) /\ Stage(op[r]) \in Refreshing
        /\ \A q \in Req : q # r => op'[q] = op[q]
    BY <1>1, <1>3 DEF Stage, Request, Refreshing
  <2>2. Stage(op[r]) = "answer" => ~op[r].late BY <1>1, <1>3 DEF Linked, Live
  <2>3. Linked(op[r])'
    BY <1>1, <2>1, <2>2 DEF Linked, Stage, Opening
  <2> QED BY <1>1, <2>1, <2>3, NotRevoking, StayClosure
<1> QED BY <1>1, <1>2, <1>3 DEF CheckParent

LEMMA CandidateClosure ==
    ASSUME Naming, Grows, Closes, Closure, NEW r \in Req, Candidate(r)
    PROVE  Closure'
<1>1. /\ op \in [Req -> Request] /\ op[r] \in Request /\ op[r].pc = "candidate" /\ Good(op[r])
      /\ op' = [op EXCEPT ![r].pc = "rotate", ![r].new = fresh]
      /\ fresh \in Token /\ doc' = [doc EXCEPT ![fresh] = op[r].f]
      /\ UNCHANGED <<fam, linked, answered, barred>>
  BY DEF Naming, TypeOK, Candidate, At, history
<1>2. /\ op'[r].pc = "rotate" /\ op'[r].f = op[r].f /\ \A q \in Req : q # r => op'[q] = op[q]
  BY <1>1 DEF Request
<1>3. Stage(op[r]) \in Refreshing /\ Stage(op'[r]) = "rotate" /\ Stage(op'[r]) \in Refreshing
      /\ op'[r].pc \in Refreshing
  BY <1>1, <1>2 DEF Stage, Refreshing
<1>4. op[r].f \in Family /\ Exists(op[r].f) BY <1>1, <1>3 DEF Good, Stage
<1>5. \A t \in Token : doc'[t] = doc[t] \/ doc'[t] = op[r].f BY <1>1 DEF Naming, TypeOK
<1> QED BY <1>1, <1>2, <1>3, <1>4, <1>5, WithinClosure DEF Exists

LEMMA AnswerWithClosure ==
    ASSUME Naming, Grows, Closes, Closure, NEW r \in Req, NEW t, op[r].pc \in {"swap", "settle"},
           AnswerWith(r, t), \A f \in Family : fam'[f].state # "none" => fam[f].state # "none",
           UNCHANGED <<doc, linked, answered, barred>>
    PROVE  Closure'
<1>1. op'[r].pc = "final" /\ op'[r].f = op[r].f /\ \A q \in Req : q # r => op'[q] = op[q]
  BY AnswerMove
<1>2. Stage(op[r]) \in Refreshing /\ Stage(op'[r]) = "final" /\ Stage(op'[r]) \in Refreshing
      /\ op'[r].pc \in Refreshing
  BY <1>1 DEF Stage, Refreshing
<1> QED BY <1>1, <1>2, WithinClosure

LEMMA RotateClosure ==
    ASSUME Naming, Grows, Closes, Closure, NEW r \in Req, Rotate(r)
    PROVE  Closure'
<1>1. /\ op \in [Req -> Request] /\ op[r] \in Request /\ op[r].pc = "swap" /\ Good(op[r])
      /\ UNCHANGED <<doc, linked, answered, barred>>
  BY DEF Naming, TypeOK, Rotate, At, history
<1>2. Stage(op[r]) \in Refreshing /\ op[r].f \in Family /\ Exists(op[r].f)
  BY <1>1 DEF Good, Stage, Refreshing
<1>3. CASE UNCHANGED fam /\ AnswerWith(r, op[r].seen.cur)
  BY <1>1, <1>3, AnswerWithClosure
<1>4. CASE UNCHANGED fam /\ RevokeAll(r, {op[r].f})
  BY <1>1, <1>2, <1>4, RevokeClosure
<1>5. CASE UNCHANGED fam /\ op' = [op EXCEPT ![r].pc = "lost", ![r].new = NoToken, ![r].seen = NoFam]
  <2>1. op'[r].pc = "lost" /\ op'[r].f = op[r].f /\ \A q \in Req : q # r => op'[q] = op[q]
    BY <1>1, <1>5 DEF Request
  <2>2. Stage(op'[r]) = "lost" /\ Stage(op'[r]) \in Refreshing /\ op'[r].pc \in Refreshing
    BY <2>1 DEF Stage, Refreshing
  <2> QED BY <1>1, <1>2, <1>5, <2>1, <2>2, WithinClosure
<1>6. CASE /\ SwapMatches(r) /\ AnswerWith(r, op[r].new)
           /\ fam' = [fam EXCEPT ![op[r].f] = [@ EXCEPT !.cur = op[r].new, !.prev = op[r].tok,
                                                        !.retry = TRUE]]
  <2>1. \A f \in Family : fam'[f].state # "none" => fam[f].state # "none"
    BY <1>2, <1>6 DEF Naming, TypeOK, Exists
  <2> QED BY <1>1, <1>6, <2>1, AnswerWithClosure
<1> QED BY <1>3, <1>4, <1>5, <1>6 DEF Rotate

LEMMA AnswerClosure ==
    ASSUME Naming, Grows, Closes, Closure, NEW r \in Req, Answer(r)
    PROVE  Closure'
<1>1. /\ op[r].pc = "answer" /\ UNCHANGED <<fam, doc, linked, barred>> /\ End(r)
      /\ answered' = answered \cup {<<op[r].tok, op[r].ans>>} /\ Good(op[r]) /\ Linked(op[r])
  BY DEF Answer, At, store, Naming, Closure
<1>2. Stage(op[r]) \in Refreshing BY <1>1 DEF Stage, Refreshing
<1>3. doc[op[r].tok] = op[r].f /\ (op[r].f \in Legacy => op[r].f \in linked)
  BY <1>1, <1>2 DEF Good, Linked
<1>4. op'[r].pc = "idle" /\ \A q \in Req : q # r => op'[q] = op[q] BY <1>1, EndMove DEF IdleOp
<1>5. \A x \in answered' : x \in answered \/ (doc'[x[1]] \in Legacy => doc'[x[1]] \in linked')
  BY <1>1, <1>3
<1> QED BY <1>1, <1>4, <1>5, NotRevoking, NotLinked, MoveClosure

LEMMA WindowClosure ==
    ASSUME Naming, Grows, Closes, Closure, NEW f \in Family, CloseRetryWindow(f)
    PROVE  Closure'
<1>1. UNCHANGED <<doc, linked, marked, op, answered, barred>>
  BY DEF CloseRetryWindow, history
<1>2. \A g \in Family : fam'[g].state = fam[g].state
  BY DEF CloseRetryWindow, Naming, TypeOK, FamilyDoc
<1>3. \A q \in Req : Revoking(op[q])' /\ Linked(op[q])' BY <1>1, OtherClosure
<1>4. \A g \in barred' : Ended(g)' BY <1>1, EndedStays DEF Closure, Naming, TypeOK
<1> QED BY <1>1, <1>2, <1>3, <1>4 DEF Closure, Exists

LEMMA StepClosure ==
    ASSUME Naming, Grows, Closes, Closure, NEW r \in Req, Step(r)
    PROVE  Closure'
<1>1. CASE FirstValidate(r)
  BY <1>1, ValidateClosure DEF FirstValidate, At, Refreshing
<1>2. CASE RotateRead(r)
  BY <1>2, ValidateClosure DEF RotateRead, At, Refreshing
<1>3. CASE LostRead(r)
  BY <1>3, ValidateClosure DEF LostRead, At, Refreshing
<1>4. CASE FinalValidate(r)
  BY <1>4, ValidateClosure DEF FinalValidate, At, Refreshing
<1>5. CASE Settle(r)
  <2>1. op[r].pc = "settle" /\ UNCHANGED <<fam, doc, linked, answered, barred>>
    BY <1>5 DEF Settle, At, store, history
  <2>2. CASE End(r) BY <2>1, <2>2, EndClosure
  <2>3. CASE AnswerWith(r, op[r].seen.cur) BY <2>1, <2>3, AnswerWithClosure
  <2> QED BY <1>5, <2>2, <2>3 DEF Settle
<1> QED BY <1>1, <1>2, <1>3, <1>4, <1>5, CheckParentClosure, CreateClosure, PersistClosure,
           UpgradeClosure, LinkClosure, CandidateClosure, RotateClosure, AnswerClosure,
           SweepClosure, RevokeReadClosure, RevokeDocClosure, RevokedClosure
    DEF Step

LEMMA NextClosure == ASSUME Naming, Grows, Closure, Next PROVE Closure'
<1>1. Closes BY StepCloses
<1>2. ASSUME NEW r \in Req, Fail(r) PROVE Closure'
  BY <1>1, <1>2, EndClosure DEF Fail, store, history
<1> QED BY <1>1, <1>2, StepClosure, OpenClosure, RevocationClosure, RefreshClosure,
           RevokeTokenClosure, MarkClosure, WindowClosure
    DEF Next

LEMMA InitClosure == Init => Closure
<1> SUFFICES ASSUME Init PROVE Closure OBVIOUS
<1>1. /\ fam = [f \in Family |-> NoFam] /\ op = [r \in Req |-> IdleOp]
      /\ answered = {} /\ barred = {}
      /\ \A t \in Token \ LegacyToken : doc[t] = NoFamily
  BY DEF Init
<1>2. Revoking(IdleOp) /\ Linked(IdleOp)
  BY DEF IdleOp, Revoking, Linked, Stage, Refreshing, Opening
<1> QED BY <1>1, <1>2, ConstantsAssumption DEF Closure, NoFam, Exists

-----------------------------------------------------------------------------
(* The theorems *)

LEMMA NextIInv == IInv /\ [Next]_vars => IInv' /\ [Grows]_vars
<1> SUFFICES ASSUME IInv, [Next]_vars PROVE IInv' /\ [Grows]_vars OBVIOUS
<1>1. CASE Next
  BY <1>1, NextNaming, NextSuccession, NextClosure DEF IInv
<1>2. CASE UNCHANGED vars
  <2>1. Naming' BY <1>2 DEF IInv, Naming, TypeOK, Documents, Apart, Good, Exists, vars, store, history
  <2>2. Succession' BY <1>2 DEF IInv, Succession, Succ, Exists, vars, store, history
  <2>3. Closure'
    BY <1>2 DEF IInv, Closure, Ended, Over, Revoking, Linked, InWork, Exists, vars, store, history
  <2> QED BY <1>2, <2>1, <2>2, <2>3 DEF IInv
<1> QED BY <1>1, <1>2

LEMMA Inductive == Spec => []IInv
<1>1. Init => IInv BY InitNaming, InitSuccession, InitClosure DEF IInv
<1> QED BY <1>1, NextIInv, PTL DEF Spec

(* Every variable keeps its type, a linked legacy token has its session, and *)
(* a session always names the token it accepts.                              *)
THEOREM TypeCorrect == Spec => []TypeOK
<1>1. IInv => TypeOK BY DEF IInv, Naming
<1> QED BY <1>1, Inductive, PTL

(* The document of a token is there before a client has the token, and names *)
(* the family of the token that was presented for it: createRefreshToken and *)
(* refreshToken persist before they answer.                                  *)
THEOREM TokensArePersisted == Spec => []SentTokensArePersisted
<1>1. IInv => SentTokensArePersisted
  BY DEF IInv, Naming, Documents, SentTokensArePersisted
<1> QED BY <1>1, Inductive, PTL

(* However many refreshes of one token race, crash and are repeated, their   *)
(* answers agree on its one successor: the swap in rotate and the re-read of *)
(* its loser never let a family fork.                                        *)
THEOREM FamiliesDoNotFork == Spec => []OneSuccessor
<1>1. IInv => OneSuccessor
  <2> SUFFICES ASSUME IInv, NEW x \in answered, NEW y \in answered,
                      x[1] = y[1], x[1] \notin {x[2], y[2]}
               PROVE  x[2] = y[2]
    BY DEF OneSuccessor
  <2>1. /\ x = <<x[1], x[2]>> /\ y = <<y[1], y[2]>>
        /\ x[1] \in Token /\ x[2] \in Token /\ y[2] \in Token
    BY DEF IInv, Naming, TypeOK
  <2>2. x[1] # NoToken BY <2>1, Basics DEF IInv, Naming
  <2>3. Succ(x[1], x[2]) /\ Succ(x[1], y[2]) BY <2>1, <2>2 DEF Succ
  <2> QED BY <2>1, <2>3 DEF IInv, Succession
<1> QED BY <1>1, Inductive, PTL

(* A refresh whose last look at its family came after the end of a           *)
(* revocation that was to end it is not answered: validate looks at the      *)
(* session and at its parent, and the link of a legacy token at is_revoked.  *)
THEOREM NothingAfterRevocation == Spec => []NoAnswerAfterRevocation
<1>1. IInv => NoAnswerAfterRevocation
  BY DEF IInv, Closure, Linked, Stage, NoAnswerAfterRevocation, At
<1> QED BY <1>1, Inductive, PTL

(* No step of any request changes the state or the token of a revoked        *)
(* session: every filter that writes one asks for revoked_at null.           *)
THEOREM RevokedStaysRevoked == Spec => RevocationIsFinal
<1>1. IInv /\ [Next]_vars =>
        [\A f \in Family : fam[f].state = "revoked" =>
            fam'[f].state = "revoked" /\ fam'[f].cur = fam[f].cur]_vars
  BY NextIInv DEF Grows
<1> QED BY <1>1, Inductive, PTL DEF Spec, RevocationIsFinal
=============================================================================
