---------------------------- MODULE AccessProofs ----------------------------
(* What MCAccess checks of Recipes, OAuth, Credentials and EventFeed, for  *)
(* any recipes, people, tokens, pages, requests and bounds.                *)
EXTENDS MCAccess, Sequences, FiniteSetTheorems, WellFoundedInduction, TLAPS

-----------------------------------------------------------------------------
(* Recipes: what save leaves out is never approved, so that memory and the *)
(* file hold what the last answer said.                                    *)

RecipeFiles == UNION {[S -> [seen : Nat, approved : BOOLEAN]] : S \in SUBSET Digests}

RecipeInv ==
    /\ recs \in RecipeFiles /\ file \in RecipeFiles /\ calls \in Nat
    /\ told \in [Digests -> {"nothing", "approved", "revoked"}]
    /\ AnswersStand

(* What a call makes of the records keeps those that are approved.         *)
LEMMA CalledKeepsApproved ==
    ASSUME NEW rs \in RecipeFiles, calls \in Nat, Built!Called(rs)
    PROVE  recs' \in RecipeFiles /\ calls' \in Nat /\ Built!Approved(recs') = Built!Approved(rs)
<1>1. PICK S \in SUBSET Digests : rs \in [S -> [seen : Nat, approved : BOOLEAN]]
  BY DEF RecipeFiles
<1>2. CASE recs' = rs
  BY <1>2 DEF Built!Called
<1>3. CASE recs' = [d \in Built!Kept(rs) |-> rs[d]]
  <2>1. Built!Approved(rs) \subseteq Built!Kept(rs) /\ Built!Kept(rs) \subseteq S
    BY <1>1 DEF Built!Kept, Built!Approved
  <2>2. recs' \in [Built!Kept(rs) -> [seen : Nat, approved : BOOLEAN]]
    BY <1>1, <1>3, <2>1
  <2>3. Built!Approved(recs') = Built!Approved(rs)
    BY <1>1, <1>3, <2>1 DEF Built!Approved
  <2> QED
    BY <1>1, <2>1, <2>2, <2>3 DEF RecipeFiles, Built!Called
<1> QED
  BY <1>2, <1>3 DEF Built!Called

(* One recipe marked approved, seen again or not, is the only difference.  *)
LEMMA Marked ==
    ASSUME recs \in RecipeFiles, NEW d \in Digests, NEW r \in [seen : Nat, approved : BOOLEAN]
    PROVE  /\ Built!With(d, r) \in RecipeFiles
           /\ Built!Approved(Built!With(d, r)) = IF r.approved THEN Built!Approved(recs) \cup {d}
                                                           ELSE Built!Approved(recs) \ {d}
<1>1. PICK S \in SUBSET Digests : recs \in [S -> [seen : Nat, approved : BOOLEAN]]
  BY DEF RecipeFiles
<1>2. Built!With(d, r) \in [S \cup {d} -> [seen : Nat, approved : BOOLEAN]]
  BY <1>1 DEF Built!With
<1>3. \A e \in S \cup {d} : Built!With(d, r)[e] = IF e = d THEN r ELSE recs[e]
  BY <1>1 DEF Built!With
<1>4. S \cup {d} \in SUBSET Digests /\ DOMAIN Built!With(d, r) = S \cup {d} /\ DOMAIN recs = S
  BY <1>1 DEF Built!With
<1>5. Built!With(d, r) \in RecipeFiles
  BY <1>2, <1>4 DEF RecipeFiles
<1> QED
  BY <1>3, <1>4, <1>5 DEF Built!Approved

(* Saved or not, what is told of one recipe, d, and what is in force about *)
(* the others agree when nothing but d's approval changes.                 *)
LEMMA AnswersKept ==
    ASSUME NEW rs \in RecipeFiles, NEW d \in Digests, RecipeInv,
           Built!Approved(rs) \ {d} = Built!Approved(recs) \ {d},
           \/ UNCHANGED told /\ Built!Approved(rs) = Built!Approved(recs)
           \/ told' = [told EXCEPT ![d] = "nothing"]
           \/ told' = [told EXCEPT ![d] = "approved"] /\ d \in Built!Approved(rs) /\ Built!Saved(rs)
           \/ told' = [told EXCEPT ![d] = "revoked"] /\ d \notin Built!Approved(rs) /\ Built!Saved(rs),
           Built!Saved(rs) \/ Built!SaveFails(rs)
    PROVE  RecipeInv'
<1>1. recs' \in RecipeFiles /\ calls' \in Nat /\ Built!Approved(recs') = Built!Approved(rs)
  BY CalledKeepsApproved DEF Built!Saved, Built!SaveFails, RecipeInv
<1>2. file' = recs' \/ (file' = file /\ ~Built!Saved(rs)) \/ file' = file
  BY DEF Built!Saved, Built!SaveFails
<1>3. Built!Saved(rs) => file' = recs'
  BY DEF Built!Saved
<1>4. file' = recs' \/ file' = file
  BY DEF Built!Saved, Built!SaveFails
<1>5. told' \in [Digests -> {"nothing", "approved", "revoked"}] /\ file' \in RecipeFiles
  BY <1>1, <1>4 DEF RecipeInv
<1>6. ASSUME NEW e \in Digests
      PROVE  /\ told'[e] = "approved" => e \in Built!Approved(recs') \cap Built!Approved(file')
             /\ told'[e] = "revoked" => e \notin Built!Approved(recs') \cup Built!Approved(file')
  <2>1. CASE e # d
    BY <1>1, <1>4, <2>1 DEF RecipeInv, AnswersStand, Built!AnswersStand
  <2>2. CASE e = d
    BY <1>1, <1>3, <1>4, <2>2 DEF RecipeInv, AnswersStand, Built!AnswersStand
  <2> QED
    BY <2>1, <2>2
<1> QED
  BY <1>1, <1>5, <1>6 DEF RecipeInv, AnswersStand, Built!AnswersStand

(* What was answered about a recipe stands, in memory and in the file,     *)
(* until there is another answer about it (recipes.go, save: "Keep every   *)
(* approved recipe"): with any number of recipes, any limit and any writes *)
(* that fail.                                                              *)
THEOREM AnswersAlwaysStand == Built!Spec => []AnswersStand
<1>1. Built!Init => RecipeInv
  <2>1. Built!None \in [{} -> [seen : Nat, approved : BOOLEAN]]
    BY DEF Built!None
  <2>2. Built!None \in RecipeFiles
    BY <2>1 DEF RecipeFiles
  <2> QED
    BY <2>2 DEF Built!Init, RecipeInv, AnswersStand, Built!AnswersStand
<1>2. RecipeInv /\ [Built!Next]_(Built!recipeVars) => RecipeInv'
  <2> SUFFICES ASSUME RecipeInv, [Built!Next]_(Built!recipeVars)
               PROVE  RecipeInv'
    OBVIOUS
  <2>1. ASSUME NEW d \in Digests, Built!Build(d)
        PROVE  RecipeInv'
    <3> DEFINE r == [seen |-> calls, approved |-> Built!IsApproved(d)]
    <3>1. calls \in Nat /\ recs \in RecipeFiles
      BY DEF RecipeInv
    <3>2. r \in [seen : Nat, approved : BOOLEAN]
      <4>1. CASE d \in Built!Approved(recs)
        <5>1. (d \in Built!Approved(recs)) = TRUE
          BY <4>1
        <5> QED
          BY <3>1, <5>1 DEF Built!IsApproved
      <4>2. CASE d \notin Built!Approved(recs)
        <5>1. (d \in Built!Approved(recs)) = FALSE
          BY <4>2
        <5> QED
          BY <3>1, <5>1 DEF Built!IsApproved
      <4> QED
        BY <4>1, <4>2
    <3>3. /\ Built!With(d, r) \in RecipeFiles
          /\ Built!Approved(Built!With(d, r)) = IF r.approved THEN Built!Approved(recs) \cup {d}
                                                          ELSE Built!Approved(recs) \ {d}
      BY <3>1, <3>2, Marked, Zenon
    <3>4. Built!With(d, r) \in RecipeFiles /\ Built!Approved(Built!With(d, r)) = Built!Approved(recs)
      BY <3>3 DEF Built!IsApproved
    <3> QED
      BY <2>1, <3>4, AnswersKept DEF Built!Build
  <2>2. ASSUME NEW d \in Digests, Built!Approve(d)
        PROVE  RecipeInv'
    <3> DEFINE r == [seen |-> IF d \in DOMAIN recs THEN recs[d].seen ELSE calls, approved |-> TRUE]
    <3>1. PICK S \in SUBSET Digests : recs \in [S -> [seen : Nat, approved : BOOLEAN]]
      BY DEF RecipeInv, RecipeFiles
    <3>2. r \in [seen : Nat, approved : BOOLEAN] /\ recs \in RecipeFiles
      BY <3>1 DEF RecipeInv
    <3>3. /\ Built!AsApproved(d) \in RecipeFiles
          /\ Built!Approved(Built!AsApproved(d)) = Built!Approved(recs) \cup {d}
      BY <3>2, Marked DEF Built!AsApproved
    <3> QED
      BY <2>2, <3>3, AnswersKept DEF Built!Approve, Built!Tell
  <2>3. ASSUME NEW d \in Digests, Built!Revoke(d)
        PROVE  RecipeInv'
    <3> DEFINE rs == [recs EXCEPT ![d].approved = FALSE]
    <3>1. PICK S \in SUBSET Digests : recs \in [S -> [seen : Nat, approved : BOOLEAN]]
      BY DEF RecipeInv, RecipeFiles
    <3>2. rs \in RecipeFiles /\ Built!Approved(rs) = Built!Approved(recs) \ {d}
      BY <2>3, <3>1 DEF RecipeFiles, Built!Approved, Built!Revoke
    <3> QED
      BY <2>3, <3>2, AnswersKept DEF Built!Revoke, Built!Tell
  <2>4. CASE Built!Restart
    BY <2>4 DEF Built!Restart, RecipeInv, AnswersStand, Built!AnswersStand
  <2>5. CASE UNCHANGED Built!recipeVars
    BY <2>5 DEF Built!recipeVars, RecipeInv, AnswersStand, Built!AnswersStand, Built!Approved
  <2> QED
    BY <2>1, <2>2, <2>3, <2>4, <2>5 DEF Built!Next, Built!ApproveFromGit
<1>3. RecipeInv => AnswersStand
  BY DEF RecipeInv
<1> QED
  BY <1>1, <1>2, <1>3, PTL DEF Built!Spec

-----------------------------------------------------------------------------
(* OAuth: what a step does to the store and to the requests.               *)

GrantStores == UNION {[S -> GrantRecords] : S \in SUBSET Nat}
CodeStores  == UNION {[S -> [client : Nat, user : People]] : S \in SUBSET Nat}

Counters == [client : Nat, code : Nat, grant : Nat, refresh : Nat]

TypesInv ==
    /\ clients \in SUBSET Nat /\ grants \in GrantStores
    /\ disk \in [clients : SUBSET Nat, grants : GrantStores]
    /\ codes \in CodeStores
    /\ req = [s \in Slots |-> req[s]]
    /\ given \in Counters

(* The file holds what is in memory, or what it held.                      *)
LEMMA FileAfter ==
    ASSUME NEW ok \in BOOLEAN, Save(ok)
    PROVE  disk' = disk \/ disk' = [clients |-> clients', grants |-> grants']
BY DEF Save

(* What is in a store is of its type.                                      *)
LEMMA Stored ==
    /\ \A f \in GrantStores : \A g \in DOMAIN f :
          f[g] \in GrantRecords /\ g \in Nat /\ {f[g].client, f[g].cur, f[g].prev} \subseteq Nat
    /\ \A f \in CodeStores : \A k \in DOMAIN f : k \in Nat /\ f[k].client \in Nat /\ f[k].user \in People
<1>1. ASSUME NEW f \in GrantStores, NEW g \in DOMAIN f
      PROVE  f[g] \in GrantRecords /\ g \in Nat /\ {f[g].client, f[g].cur, f[g].prev} \subseteq Nat
  <2>1. PICK S \in SUBSET Nat : f \in [S -> GrantRecords]
    BY DEF GrantStores
  <2> QED
    BY <2>1 DEF GrantRecords
<1>2. ASSUME NEW f \in CodeStores, NEW k \in DOMAIN f
      PROVE  k \in Nat /\ f[k].client \in Nat /\ f[k].user \in People
  <2>1. PICK S \in SUBSET Nat : f \in [S -> [client : Nat, user : People]]
    BY DEF CodeStores
  <2> QED
    BY <2>1
<1> QED
  BY <1>1, <1>2

(* A grant that is added, removed or rotated is the only one to change.    *)
LEMMA GrantAdded ==
    ASSUME NEW f \in GrantStores, NEW k \in Nat, NEW v \in GrantRecords
    PROVE  /\ With(f, k, v) \in GrantStores /\ DOMAIN With(f, k, v) = DOMAIN f \cup {k}
           /\ \A x \in DOMAIN f \cup {k} : With(f, k, v)[x] = IF x = k THEN v ELSE f[x]
<1>1. PICK S \in SUBSET Nat : f \in [S -> GrantRecords]
  BY DEF GrantStores
<1>2. With(f, k, v) \in [S \cup {k} -> GrantRecords] /\ S \cup {k} \in SUBSET Nat
  BY <1>1 DEF With
<1> QED
  BY <1>1, <1>2 DEF With, GrantStores

(* What is removed is gone, and the rest is what it was.                   *)
LEMMA GrantRemoved ==
    ASSUME NEW f \in GrantStores, NEW k
    PROVE  /\ Without(f, k) \in GrantStores /\ DOMAIN Without(f, k) = DOMAIN f \ {k}
           /\ \A x \in DOMAIN f \ {k} : Without(f, k)[x] = f[x]
<1>1. PICK S \in SUBSET Nat : f \in [S -> GrantRecords]
  BY DEF GrantStores
<1>2. Without(f, k) \in [S \ {k} -> GrantRecords] /\ S \ {k} \in SUBSET Nat
  BY <1>1 DEF Without, Restrict
<1> QED
  BY <1>1, <1>2 DEF Without, Restrict, GrantStores

(* A rotation changes the tokens of one grant and no grant's client.       *)
LEMMA GrantRotated ==
    ASSUME grants \in GrantStores, NEW g \in DOMAIN grants, NEW n \in Nat
    PROVE  /\ Rotated(g, n) \in GrantStores /\ DOMAIN Rotated(g, n) = DOMAIN grants
           /\ \A x \in DOMAIN grants : Rotated(g, n)[x].client = grants[x].client
           /\ \A x \in DOMAIN grants : Rotated(g, n)[x].cur = IF x = g THEN n ELSE grants[x].cur
<1> DEFINE v == [grants[g] EXCEPT !.prev = grants[g].cur, !.cur = n]
<1>1. grants[g] \in GrantRecords /\ g \in Nat
  BY Stored
<1>2. v \in GrantRecords /\ v.client = grants[g].client /\ v.cur = n
  BY <1>1 DEF GrantRecords
<1> HIDE DEF v
<1>3. /\ With(grants, g, v) \in GrantStores /\ DOMAIN With(grants, g, v) = DOMAIN grants \cup {g}
      /\ \A x \in DOMAIN grants \cup {g} : With(grants, g, v)[x] = IF x = g THEN v ELSE grants[x]
  BY <1>1, <1>2, GrantAdded
<1>4. Rotated(g, n) = With(grants, g, v)
  BY DEF Rotated, v
<1> QED
  BY <1>2, <1>3, <1>4

(* And so with the codes.                                                  *)
LEMMA CodeAdded ==
    ASSUME NEW f \in CodeStores, NEW k \in Nat, NEW v \in [client : Nat, user : People]
    PROVE  With(f, k, v) \in CodeStores /\ DOMAIN With(f, k, v) = DOMAIN f \cup {k}
<1>1. PICK S \in SUBSET Nat : f \in [S -> [client : Nat, user : People]]
  BY DEF CodeStores
<1>2. With(f, k, v) \in [S \cup {k} -> [client : Nat, user : People]] /\ S \cup {k} \in SUBSET Nat
  BY <1>1 DEF With
<1> QED
  BY <1>1, <1>2 DEF With, CodeStores

(* The same of a code that is used up.                                     *)
LEMMA CodeRemoved ==
    ASSUME NEW f \in CodeStores, NEW k
    PROVE  Without(f, k) \in CodeStores /\ DOMAIN Without(f, k) = DOMAIN f \ {k}
<1>1. PICK S \in SUBSET Nat : f \in [S -> [client : Nat, user : People]]
  BY DEF CodeStores
<1>2. Without(f, k) \in [S \ {k} -> [client : Nat, user : People]] /\ S \ {k} \in SUBSET Nat
  BY <1>1 DEF Without, Restrict
<1> QED
  BY <1>1, <1>2 DEF Without, Restrict, CodeStores

(* A request's new state.                                                  *)
LEMMA RequestSet ==
    ASSUME TypesInv, NEW s \in Slots, NEW r, req' = [req EXCEPT ![s] = r]
    PROVE  req' = [t \in Slots |-> req'[t]] /\ \A t \in Slots : req'[t] = IF t = s THEN r ELSE req[t]
BY DEF TypesInv

(* The counters, each as it is raised.                                     *)
LEMMA Counted == \A n \in Counters : {n.client, n.code, n.grant, n.refresh} \subseteq Nat
BY DEF Counters

(* A client registers.                                                     *)
LEMMA ClientCounted ==
    ASSUME given \in Counters, given' = [given EXCEPT !.client = given.client + 1]
    PROVE  /\ given' \in Counters
           /\ given'.client = given.client + 1
           /\ given'.code = given.code
           /\ given'.grant = given.grant
           /\ given'.refresh = given.refresh
BY DEF Counters

(* A code is given out.                                                    *)
LEMMA CodeCounted ==
    ASSUME given \in Counters, given' = [given EXCEPT !.code = given.code + 1]
    PROVE  /\ given' \in Counters
           /\ given'.client = given.client
           /\ given'.code = given.code + 1
           /\ given'.grant = given.grant
           /\ given'.refresh = given.refresh
BY DEF Counters

(* A refresh token is made.                                                *)
LEMMA RefreshCounted ==
    ASSUME given \in Counters, given' = [given EXCEPT !.refresh = given.refresh + 1]
    PROVE  /\ given' \in Counters
           /\ given'.client = given.client
           /\ given'.code = given.code
           /\ given'.grant = given.grant
           /\ given'.refresh = given.refresh + 1
BY DEF Counters

(* A grant is made, and its refresh token.                                 *)
LEMMA GrantCounted ==
    ASSUME given \in Counters, given' = [given EXCEPT !.grant = given.grant + 1, !.refresh = given.refresh + 1]
    PROVE  /\ given' \in Counters
           /\ given'.client = given.client
           /\ given'.code = given.code
           /\ given'.grant = given.grant + 1
           /\ given'.refresh = given.refresh + 1
<1> DEFINE v == [given EXCEPT !.grant = given.grant + 1]
<1>1. v \in Counters /\ v.grant = given.grant + 1 /\ v.client = given.client /\ v.code = given.code
  BY DEF Counters
<1>2. given' = [v EXCEPT !.refresh = given.refresh + 1]
  OBVIOUS
<1>3. given.refresh + 1 \in Nat
  BY DEF Counters
<1> HIDE DEF v
<1> QED
  BY <1>1, <1>2, <1>3 DEF Counters

(* Every action leaves the store, the file, the requests and the counters  *)
(* what they are.                                                          *)
LEMMA TypesKept == TypesInv /\ [Next]_vars => TypesInv'
<1> SUFFICES ASSUME TypesInv, [Next]_vars
             PROVE  TypesInv'
  OBVIOUS
<1> USE DEF TypesInv
<1>0. /\ given \in Counters
      /\ given.client + 1 \in Nat /\ given.code + 1 \in Nat
      /\ given.grant + 1 \in Nat /\ given.refresh + 1 \in Nat
  BY DEF Counters
<1>1. CASE RegisterClient
  <2>1. given' \in Counters
    <3>1. given' = [given EXCEPT !.client = given.client + 1]
      BY <1>1 DEF RegisterClient
    <3> QED
      BY <1>0, <3>1, ClientCounted
  <2>2. given'.client \in Nat
    BY <2>1, Counted
  <2>3. clients' \in SUBSET Nat /\ grants' \in GrantStores
    BY <1>1, <2>2 DEF RegisterClient
  <2>4. disk' \in [clients : SUBSET Nat, grants : GrantStores]
    BY <1>1, <2>3, FileAfter DEF RegisterClient
  <2> QED
    BY <1>1, <2>1, <2>3, <2>4 DEF RegisterClient
<1>2. ASSUME NEW u \in People, NEW c \in clients, Consent(u, c)
      PROVE  TypesInv'
  <2>1. given' \in Counters
    <3>1. given' = [given EXCEPT !.code = given.code + 1]
      BY <1>2 DEF Consent
    <3> QED
      BY <1>0, <3>1, CodeCounted
  <2>2. codes' \in CodeStores
    BY <1>0, <1>2, <2>1, CodeAdded, Counted DEF Consent
  <2> QED
    BY <1>2, <2>1, <2>2 DEF Consent
<1>3. ASSUME NEW u \in People, SetDisabled(u)
      PROVE  TypesInv'
  BY <1>3 DEF SetDisabled
<1>4. ASSUME NEW s \in Slots, NEW c, NEW kind, NEW t, Ask(s, c, kind, t)
      PROVE  TypesInv'
  BY <1>4, RequestSet DEF Ask
<1>5. ASSUME NEW s \in Slots, RefuseCode(s)
      PROVE  TypesInv'
  BY <1>5, RequestSet, CodeRemoved DEF RefuseCode, UseUp, Finished
<1>6. ASSUME NEW s \in Slots, ExchangeCode(s)
      PROVE  TypesInv'
  <2>1. PICK ok \in BOOLEAN :
          /\ given' = [given EXCEPT !.grant = given.grant + 1, !.refresh = given.refresh + 1]
          /\ UNCHANGED clients
          /\ grants' = IF ok THEN With(grants, given.grant + 1,
                                       [client |-> req[s].client, user |-> codes[req[s].token].user,
                                        cur |-> given.refresh + 1, prev |-> NoToken])
                             ELSE grants
          /\ Save(ok)
    BY <1>6 DEF ExchangeCode
  <2>2. given' \in Counters /\ given.grant + 1 \in Nat /\ given.refresh + 1 \in Nat
    BY <1>0, <2>1, GrantCounted
  <2>3. codes[req[s].token].user \in People /\ req[s].client \in Nat
    BY <1>6, Stored DEF ExchangeCode, Accepts
  <2>4. grants' \in GrantStores
    BY <2>1, <2>2, <2>3, GrantAdded DEF GrantRecords, NoToken
  <2>5. disk' \in [clients : SUBSET Nat, grants : GrantStores]
    BY <2>1, <2>4, FileAfter
  <2>6. codes' \in CodeStores
    BY <1>6, CodeRemoved DEF ExchangeCode, UseUp
  <2>7. req' = [t \in Slots |-> req'[t]]
    BY <1>6, RequestSet DEF ExchangeCode, Issued, Finished
  <2> QED
    BY <2>1, <2>2, <2>4, <2>5, <2>6, <2>7
<1>7. ASSUME NEW g, Remove(g)
      PROVE  /\ clients' \in SUBSET Nat /\ grants' \in GrantStores
             /\ disk' \in [clients : SUBSET Nat, grants : GrantStores]
  <2>1. clients' = clients /\ grants' = Without(grants, g) /\ \E ok \in BOOLEAN : Save(ok)
    BY <1>7 DEF Remove
  <2>2. grants' \in GrantStores
    BY <2>1, GrantRemoved
  <2>3. disk' = disk \/ disk' = [clients |-> clients', grants |-> grants']
    BY <2>1, FileAfter
  <2> QED
    BY <2>1, <2>2, <2>3
<1>8. ASSUME NEW s \in Slots, SpentAgain(s)
      PROVE  TypesInv'
  BY <1>7, <1>8, RequestSet DEF SpentAgain, Finished
<1>9. ASSUME NEW s \in Slots, RefuseRefresh(s)
      PROVE  TypesInv'
  BY <1>9, RequestSet DEF RefuseRefresh, Finished
<1>10. ASSUME NEW s \in Slots, Refresh(s)
       PROVE  TypesInv'
  <2>1. PICK g \in DOMAIN grants, ok \in BOOLEAN :
          /\ given' = [given EXCEPT !.refresh = @ + 1]
          /\ UNCHANGED clients
          /\ grants' = IF ok THEN Rotated(g, given'.refresh) ELSE Unrotated(g)
          /\ Save(ok)
    BY <1>10 DEF Refresh
  <2>2. given' \in Counters /\ given'.refresh \in Nat
    <3>1. given' = [given EXCEPT !.refresh = given.refresh + 1]
      BY <2>1
    <3>2. given' \in Counters /\ given'.refresh = given.refresh + 1
      BY <1>0, <3>1, RefreshCounted
    <3> QED
      BY <1>0, <3>2
  <2>3. grants[g].cur \in Nat
    BY Stored
  <2>4. grants' \in GrantStores
    BY <2>1, <2>2, <2>3, GrantRotated DEF Unrotated
  <2>5. disk' \in [clients : SUBSET Nat, grants : GrantStores]
    BY <2>1, <2>4, FileAfter
  <2>6. req' = [t \in Slots |-> req'[t]]
    BY <1>10, RequestSet DEF Refresh, Issued, Finished
  <2> QED
    BY <1>10, <2>1, <2>2, <2>4, <2>5, <2>6 DEF Refresh
<1>11. ASSUME NEW s \in Slots, Answer(s)
       PROVE  TypesInv'
  BY <1>11, RequestSet DEF Answer, Finished
<1>12. ASSUME NEW s \in Slots, Withhold(s)
       PROVE  TypesInv'
  BY <1>7, <1>12, RequestSet DEF Withhold, Finished
<1>13. ASSUME NEW g \in DOMAIN grants, VerifyAccess(g) \/ Revoke(g)
       PROVE  TypesInv'
  BY <1>7, <1>13, FileAfter DEF VerifyAccess, Revoke
<1>14. ASSUME NEW r \in held, RevokeRefresh(r)
       PROVE  TypesInv'
  BY <1>7, <1>14 DEF RevokeRefresh
<1>15. CASE Restart
  <2>1. codes' \in [{} -> [client : Nat, user : People]]
    BY <1>15 DEF Restart
  <2>2. codes' \in CodeStores
    BY <2>1 DEF CodeStores
  <2> QED
    BY <1>15, <2>2 DEF Restart
<1>16. CASE UNCHANGED vars
  BY <1>16 DEF vars
<1> QED
  BY <1>1, <1>2, <1>3, <1>4, <1>5, <1>6, <1>8, <1>9, <1>10, <1>11, <1>12, <1>13, <1>14, <1>15, <1>16
     DEF Next, Token

-----------------------------------------------------------------------------
(* A client is never evicted while a grant is its own.                     *)

(* Min picks a member: finite sets of numbers have a least one.            *)
LEMMA LeastIsThere ==
    ASSUME NEW S \in SUBSET Nat, S # {}
    PROVE  Min(S) \in S
<1>1. PICK x \in S : \A y \in S : ~ <<y, x>> \in OpToRel(<, Nat)
  BY WFMin, NatLessThanWellFounded, Zenon
<1>2. \A y \in S : ~ (y < x)
  BY <1>1, Zenon DEF OpToRel
<1>3. \A y \in S : x <= y
  BY <1>2
<1> QED
  BY <1>3, Zenon DEF Min

(* Making room takes no client that has a grant.                           *)
LEMMA EvictedUnused == TypesInv => \A g \in DOMAIN grants : grants[g].client \notin Evicted
<1> DEFINE unused == clients \ {grants[g].client : g \in DOMAIN grants}
<1>1. TypesInv /\ unused # {} => Min(unused) \in unused
  BY LeastIsThere DEF TypesInv
<1>2. Evicted = {} \/ (unused # {} /\ Evicted = {Min(unused)})
  BY DEF Evicted
<1> HIDE DEF unused
<1>3. TypesInv => Evicted \subseteq unused
  BY <1>1, <1>2
<1> QED
  BY <1>3 DEF unused

(* Every action keeps the client of every grant, in memory and in the file.*)
LEMMA ClientsKept == TypesInv /\ GrantHasClient /\ [Next]_vars => GrantHasClient'
<1> SUFFICES ASSUME TypesInv, GrantHasClient, [Next]_vars
             PROVE  GrantHasClient'
  OBVIOUS
<1> USE DEF GrantHasClient
<1>0. TypesInv'
  BY TypesKept
<1>1. ASSUME \A g \in DOMAIN grants' : grants'[g].client \in clients',
             disk' = disk \/ disk' = [clients |-> clients', grants |-> grants']
      PROVE  GrantHasClient'
  BY <1>1
<1>2. ASSUME NEW g, Remove(g)
      PROVE  GrantHasClient'
  <2>1. clients' = clients /\ grants' = Without(grants, g) /\ \E ok \in BOOLEAN : Save(ok)
    BY <1>2 DEF Remove
  <2>2. \A h \in DOMAIN grants' : grants'[h].client \in clients'
    <3>1. grants \in GrantStores
      BY DEF TypesInv
    <3>2. DOMAIN grants' = DOMAIN grants \ {g} /\ \A h \in DOMAIN grants' : grants'[h] = grants[h]
      BY <2>1, <3>1, GrantRemoved
    <3> QED
      BY <2>1, <3>2
  <2> QED
    BY <1>1, <2>1, <2>2, FileAfter
<1>3. CASE RegisterClient
  <2>1. \A g \in DOMAIN grants' : grants'[g].client \in clients'
    BY <1>3, EvictedUnused DEF RegisterClient
  <2> QED
    BY <1>1, <1>3, <2>1, FileAfter DEF RegisterClient
<1>4. ASSUME NEW s \in Slots, ExchangeCode(s)
      PROVE  GrantHasClient'
  <2>1. PICK ok \in BOOLEAN :
          /\ UNCHANGED clients
          /\ grants' = IF ok THEN With(grants, given.grant + 1,
                                       [client |-> req[s].client, user |-> codes[req[s].token].user,
                                        cur |-> given.refresh + 1, prev |-> NoToken])
                             ELSE grants
          /\ Save(ok)
    BY <1>4 DEF ExchangeCode
  <2>2. req[s].client \in clients
    BY <1>4 DEF ExchangeCode, Accepts
  <2>3. \A g \in DOMAIN grants' : grants'[g].client \in clients'
    BY <2>1, <2>2 DEF With
  <2> QED
    BY <1>1, <2>1, <2>3, FileAfter
<1>5. ASSUME NEW s \in Slots, Refresh(s)
      PROVE  GrantHasClient'
  <2>1. PICK g \in DOMAIN grants, ok \in BOOLEAN :
          /\ given' = [given EXCEPT !.refresh = @ + 1]
          /\ UNCHANGED clients
          /\ grants' = IF ok THEN Rotated(g, given'.refresh) ELSE Unrotated(g)
          /\ Save(ok)
    BY <1>5 DEF Refresh
  <2>2. grants[g].cur \in Nat /\ given'.refresh \in Nat
    BY <1>0, Stored, Counted DEF TypesInv
  <2>3. \A h \in DOMAIN grants' : grants'[h].client \in clients'
    <3>1. grants \in GrantStores
      BY DEF TypesInv
    <3>2. DOMAIN grants' = DOMAIN grants /\ \A h \in DOMAIN grants : grants'[h].client = grants[h].client
      <4>1. CASE ok
        BY <2>1, <2>2, <3>1, <4>1, GrantRotated
      <4>2. CASE ~ok
        BY <2>1, <4>2 DEF Unrotated
      <4> QED
        BY <4>1, <4>2
    <3> QED
      BY <2>1, <3>2
  <2> QED
    BY <1>1, <2>1, <2>3, FileAfter
<1>6. ASSUME NEW s \in Slots, SpentAgain(s) \/ Withhold(s)
      PROVE  GrantHasClient'
  BY <1>2, <1>6 DEF SpentAgain, Withhold
<1>7. ASSUME NEW g \in DOMAIN grants, VerifyAccess(g) \/ Revoke(g)
      PROVE  GrantHasClient'
  BY <1>1, <1>2, <1>7, FileAfter DEF VerifyAccess, Revoke
<1>8. ASSUME NEW r \in held, RevokeRefresh(r)
      PROVE  GrantHasClient'
  BY <1>2, <1>8 DEF RevokeRefresh
<1>9. ASSUME UNCHANGED <<clients, grants, disk>>
      PROVE  GrantHasClient'
  BY <1>9
<1>10. CASE Restart
  BY <1>10 DEF Restart
<1> QED
  BY <1>3, <1>4, <1>5, <1>6, <1>7, <1>8, <1>9, <1>10
     DEF Next, Token, vars, Consent, SetDisabled, Ask, RefuseCode, RefuseRefresh, Answer

-----------------------------------------------------------------------------
(* A number is given out once: what has ended is never made again, and     *)
(* what is saved afterwards lacks it.                                      *)

EndsInv ==
    /\ DOMAIN grants \cup DOMAIN disk.grants \cup ended \subseteq 1..given.grant
    /\ EndedStaysEnded

(* Every action keeps ended grants ended: numbers are given out once.      *)
LEMMA EndsKept == TypesInv /\ EndsInv /\ [Next]_vars => EndsInv'
<1> SUFFICES ASSUME TypesInv, EndsInv, [Next]_vars
             PROVE  EndsInv'
  OBVIOUS
<1> USE DEF EndsInv, EndedStaysEnded
<1>0. /\ grants \in GrantStores /\ given \in Counters /\ given.grant \in Nat /\ given.refresh \in Nat
      /\ given.client \in Nat /\ given.code \in Nat
  BY Counted DEF TypesInv
<1>1. ASSUME DOMAIN grants' \subseteq DOMAIN grants, ended' = ended, given'.grant = given.grant,
             disk' = disk \/ disk' = [clients |-> clients', grants |-> grants']
      PROVE  EndsInv'
  BY <1>1
<1>2. ASSUME NEW g \in DOMAIN grants, Remove(g), given'.grant = given.grant
      PROVE  EndsInv'
  <2>1. PICK ok \in BOOLEAN : Save(ok) /\ ended' = IF ok THEN ended \cup {g} ELSE ended
    BY <1>2 DEF Remove
  <2>2. DOMAIN grants' = DOMAIN grants \ {g}
    BY <1>0, <1>2, GrantRemoved DEF Remove
  <2>3. CASE ok
    <3>1. disk'.grants = grants' /\ ended' = ended \cup {g}
      BY <2>1, <2>3 DEF Save
    <3> QED
      BY <1>2, <2>2, <3>1
  <2>4. CASE ~ok
    <3>1. disk' = disk /\ ended' = ended
      BY <2>1, <2>4 DEF Save
    <3> QED
      BY <1>2, <2>2, <3>1
  <2> QED
    BY <2>3, <2>4
<1>3. CASE RegisterClient
  <2>1. given' = [given EXCEPT !.client = given.client + 1] /\ given.client + 1 \in Nat
    BY <1>0, <1>3 DEF RegisterClient
  <2>2. given'.grant = given.grant
    BY <1>0, <2>1, ClientCounted
  <2>3. UNCHANGED <<grants, ended>> /\ (disk' = disk \/ disk' = [clients |-> clients', grants |-> grants'])
    BY <1>3, FileAfter DEF RegisterClient
  <2> QED
    BY <1>1, <2>2, <2>3
<1>4. ASSUME NEW u, NEW c, Consent(u, c)
      PROVE  EndsInv'
  <2>1. given' = [given EXCEPT !.code = given.code + 1] /\ given.code + 1 \in Nat
    BY <1>0, <1>4 DEF Consent
  <2>2. given'.grant = given.grant
    BY <1>0, <2>1, CodeCounted
  <2> QED
    BY <1>1, <1>4, <2>2 DEF Consent
<1>5. ASSUME NEW s \in Slots, ExchangeCode(s)
      PROVE  EndsInv'
  <2>1. PICK ok \in BOOLEAN :
          /\ given' = [given EXCEPT !.grant = given.grant + 1, !.refresh = given.refresh + 1]
          /\ UNCHANGED ended
          /\ grants' = IF ok THEN With(grants, given.grant + 1,
                                       [client |-> req[s].client, user |-> codes[req[s].token].user,
                                        cur |-> given.refresh + 1, prev |-> NoToken])
                             ELSE grants
          /\ Save(ok)
    BY <1>5 DEF ExchangeCode
  <2>2. given.grant + 1 \in Nat /\ given.refresh + 1 \in Nat
    BY <1>0
  <2>3. given'.grant = given.grant + 1
    BY <1>0, <2>1, <2>2, GrantCounted
  <2>4. DOMAIN grants' \subseteq DOMAIN grants \cup {given.grant + 1}
    BY <2>1 DEF With
  <2>5. disk' = disk \/ disk' = [clients |-> clients', grants |-> grants']
    BY <2>1, FileAfter
  <2> QED
    BY <1>0, <2>1, <2>3, <2>4, <2>5
<1>6. ASSUME NEW s \in Slots, Refresh(s)
      PROVE  EndsInv'
  <2>1. PICK g \in DOMAIN grants, ok \in BOOLEAN :
          /\ given' = [given EXCEPT !.refresh = given.refresh + 1]
          /\ UNCHANGED ended
          /\ grants' = IF ok THEN Rotated(g, given'.refresh) ELSE Unrotated(g)
          /\ Save(ok)
    BY <1>6 DEF Refresh
  <2>2. given.refresh + 1 \in Nat
    BY <1>0
  <2>3. given'.grant = given.grant /\ given'.refresh = given.refresh + 1
    BY <1>0, <2>1, <2>2, RefreshCounted
  <2>4. DOMAIN grants' = DOMAIN grants
    BY <1>0, <2>1, <2>2, <2>3, GrantRotated DEF Unrotated
  <2> QED
    BY <1>1, <2>1, <2>3, <2>4, FileAfter
<1>7. ASSUME NEW s \in Slots, SpentAgain(s) \/ Withhold(s)
      PROVE  EndsInv'
  BY <1>1, <1>2, <1>7 DEF SpentAgain, Withhold
<1>8. ASSUME NEW g \in DOMAIN grants, VerifyAccess(g) \/ Revoke(g)
      PROVE  EndsInv'
  BY <1>1, <1>2, <1>8, FileAfter DEF VerifyAccess, Revoke
<1>9. ASSUME NEW r \in held, RevokeRefresh(r)
      PROVE  EndsInv'
  BY <1>2, <1>9 DEF RevokeRefresh
<1>10. CASE Restart
  BY <1>10 DEF Restart
<1>11. ASSUME UNCHANGED <<grants, disk, ended, given>>
       PROVE  EndsInv'
  BY <1>11
<1> QED
  BY <1>3, <1>4, <1>5, <1>6, <1>7, <1>8, <1>9, <1>10, <1>11
     DEF Next, Token, vars, SetDisabled, Ask, RefuseCode, RefuseRefresh, Answer

-----------------------------------------------------------------------------
(* A code is not there any more once it was presented, and the next has    *)
(* another number.                                                         *)

CodesInv ==
    /\ DOMAIN codes \subseteq 1..given.code
    /\ DOMAIN madeFrom \subseteq 1..given.grant
    /\ \A g \in DOMAIN madeFrom : madeFrom[g] \in 1..given.code /\ madeFrom[g] \notin DOMAIN codes
    /\ OneGrantPerCode

(* Every action keeps the codes of the grants apart: a code that made one  *)
(* is no longer there.                                                     *)
LEMMA CodesKept == TypesInv /\ CodesInv /\ [Next]_vars => CodesInv'
<1> SUFFICES ASSUME TypesInv, CodesInv, [Next]_vars
             PROVE  CodesInv'
  OBVIOUS
<1> USE DEF CodesInv, OneGrantPerCode, IsInjective
<1>0. /\ codes \in CodeStores /\ given \in Counters
      /\ given.code \in Nat /\ given.grant \in Nat /\ given.refresh \in Nat
      /\ given.client \in Nat /\ given.code \in Nat
  BY Counted DEF TypesInv
<1>1. ASSUME DOMAIN codes' \subseteq DOMAIN codes, madeFrom' = madeFrom,
             given'.code = given.code, given'.grant = given.grant
      PROVE  CodesInv'
  BY <1>1
<1>2. CASE RegisterClient
  <2>1. given' = [given EXCEPT !.client = given.client + 1] /\ given.client + 1 \in Nat
    BY <1>0, <1>2 DEF RegisterClient
  <2>2. given'.grant = given.grant /\ given'.code = given.code
    BY <1>0, <2>1, ClientCounted
  <2> QED
    BY <1>1, <1>2, <2>2 DEF RegisterClient
<1>3. ASSUME NEW u \in People, NEW c \in clients, Consent(u, c)
      PROVE  CodesInv'
  <2>1. given' = [given EXCEPT !.code = given.code + 1] /\ given.code + 1 \in Nat
    BY <1>0, <1>3 DEF Consent
  <2>2. given'.grant = given.grant /\ given'.code = given.code + 1
    BY <1>0, <2>1, CodeCounted
  <2>3. DOMAIN codes' = DOMAIN codes \cup {given.code + 1} /\ madeFrom' = madeFrom
    BY <1>3, <2>2 DEF Consent, With
  <2> QED
    BY <1>0, <2>2, <2>3
<1>4. ASSUME NEW s \in Slots, ExchangeCode(s)
      PROVE  CodesInv'
  <2>1. PICK ok \in BOOLEAN :
          /\ given' = [given EXCEPT !.grant = given.grant + 1, !.refresh = given.refresh + 1]
          /\ madeFrom' = IF ok THEN With(madeFrom, given.grant + 1, req[s].token) ELSE madeFrom
    BY <1>4 DEF ExchangeCode
  <2>2. given.grant + 1 \in Nat /\ given.refresh + 1 \in Nat
    BY <1>0
  <2>3. given'.grant = given.grant + 1 /\ given'.code = given.code
    BY <1>0, <2>1, <2>2, GrantCounted
  <2>4. req[s].token \in DOMAIN codes /\ DOMAIN codes' = DOMAIN codes \ {req[s].token}
    BY <1>0, <1>4, CodeRemoved DEF ExchangeCode, Accepts, UseUp
  <2>5. CASE ok
    <3>1. /\ DOMAIN madeFrom' = DOMAIN madeFrom \cup {given.grant + 1}
          /\ \A g \in DOMAIN madeFrom' :
                madeFrom'[g] = IF g = given.grant + 1 THEN req[s].token ELSE madeFrom[g]
      BY <2>1, <2>5 DEF With
    <3>2. given.grant + 1 \notin DOMAIN madeFrom
      BY <1>0
    <3> QED
      BY <1>0, <2>3, <2>4, <3>1, <3>2
  <2>6. CASE ~ok
    BY <1>0, <2>1, <2>3, <2>4, <2>6
  <2> QED
    BY <2>5, <2>6
<1>5. ASSUME NEW s \in Slots, RefuseCode(s)
      PROVE  CodesInv'
  BY <1>0, <1>1, <1>5, CodeRemoved DEF RefuseCode, UseUp
<1>6. ASSUME NEW s \in Slots, Refresh(s)
      PROVE  CodesInv'
  <2>1. given' = [given EXCEPT !.refresh = given.refresh + 1] /\ given.refresh + 1 \in Nat
    BY <1>0, <1>6 DEF Refresh
  <2>2. given'.grant = given.grant /\ given'.code = given.code
    BY <1>0, <2>1, RefreshCounted
  <2> QED
    BY <1>1, <1>6, <2>2 DEF Refresh
<1>7. CASE Restart
  BY <1>1, <1>7 DEF Restart
<1>8. ASSUME UNCHANGED <<codes, madeFrom, given>>
      PROVE  CodesInv'
  BY <1>8
<1> QED
  BY <1>2, <1>3, <1>4, <1>5, <1>6, <1>7, <1>8
     DEF Next, Token, vars, SetDisabled, Ask, SpentAgain, RefuseRefresh, Answer, Withhold,
         VerifyAccess, Revoke, RevokeRefresh

-----------------------------------------------------------------------------
(* The token a grant wants is in somebody's hands, or on its way there in  *)
(* a request that knows the grant: in memory, and in the file, which the   *)
(* next start makes the memory.                                            *)

Known(g, r) ==
    \/ r \in held
    \/ g \in adrift
    \/ \E s \in Slots : Made(s) /\ req[s].refresh = r /\ req[s].grant = g

KnownInv ==
    /\ \A g \in DOMAIN grants : \A r : r = grants[g].cur => Known(g, r)
    /\ \A g \in DOMAIN disk.grants : \A r : r = disk.grants[g].cur => Known(g, r)

(* Every action keeps the current token of each grant known to somebody.   *)
LEMMA KnownKept == TypesInv /\ KnownInv /\ [Next]_vars => KnownInv'
<1> SUFFICES ASSUME TypesInv, KnownInv, [Next]_vars
             PROVE  KnownInv'
  OBVIOUS
<1>0. /\ grants \in GrantStores /\ given \in Counters /\ given.refresh + 1 \in Nat
      /\ req = [s \in Slots |-> req[s]]
  BY Counted DEF TypesInv
<1>1. ASSUME \A g, r : Known(g, r) => Known(g, r)',
             \A g \in DOMAIN grants' : \A r : r = grants'[g].cur => Known(g, r)',
             disk' = disk \/ disk' = [clients |-> clients', grants |-> grants']
      PROVE  KnownInv'
  BY <1>1 DEF KnownInv
(* A request that is not one with tokens moves on; more is held, or lost.  *)
<1>2. ASSUME NEW s \in Slots, NEW v, ~Made(s), req' = [req EXCEPT ![s] = v],
             held \subseteq held', adrift \subseteq adrift'
      PROVE  \A g, r : Known(g, r) => Known(g, r)'
  <2>1. \A t \in Slots : t # s => req'[t] = req[t]
    BY <1>0, <1>2
  <2> QED
    BY <1>2, <2>1 DEF Known, Made
<1>3. ASSUME UNCHANGED <<req, held, adrift>>
      PROVE  \A g, r : Known(g, r) => Known(g, r)'
  BY <1>3 DEF Known, Made
<1>4. ASSUME NEW g, Remove(g)
      PROVE  /\ DOMAIN grants' \subseteq DOMAIN grants /\ \A h \in DOMAIN grants' : grants'[h] = grants[h]
             /\ disk' = disk \/ disk' = [clients |-> clients', grants |-> grants']
  <2>1. DOMAIN grants' = DOMAIN grants \ {g} /\ \A h \in DOMAIN grants' : grants'[h] = grants[h]
    BY <1>0, <1>4, GrantRemoved DEF Remove
  <2> QED
    BY <1>4, <2>1, FileAfter DEF Remove
<1>5. ASSUME NEW s \in Slots, \/ RefuseCode(s) \/ RefuseRefresh(s)
                             \/ \E c, kind, t : Ask(s, c, kind, t)
      PROVE  KnownInv'
  <2>1. ~Made(s) /\ UNCHANGED <<grants, disk, held, adrift>>
    BY <1>5 DEF RefuseCode, RefuseRefresh, Ask, Asked, Made, Idle
  <2>2. \E v : req' = [req EXCEPT ![s] = v]
    BY <1>5 DEF RefuseCode, RefuseRefresh, Ask, Finished
  <2>3. \A g, r : Known(g, r) => Known(g, r)'
    BY <1>2, <2>1, <2>2
  <2> QED
    BY <1>1, <2>1, <2>3 DEF KnownInv
<1>6. ASSUME NEW s \in Slots, ExchangeCode(s)
      PROVE  KnownInv'
  <2>1. PICK ok \in BOOLEAN :
          /\ grants' = IF ok THEN With(grants, given.grant + 1,
                                       [client |-> req[s].client, user |-> codes[req[s].token].user,
                                        cur |-> given.refresh + 1, prev |-> NoToken])
                             ELSE grants
          /\ Save(ok)
          /\ IF ok THEN Issued(s, given.grant + 1, codes[req[s].token].user, given.refresh + 1) ELSE Finished(s)
    BY <1>6 DEF ExchangeCode
  <2>2. ~Made(s) /\ UNCHANGED <<held, adrift>>
    BY <1>6 DEF ExchangeCode, Asked, Made
  <2>3. \A g, r : Known(g, r) => Known(g, r)'
    BY <1>2, <2>1, <2>2 DEF Issued, Finished
  <2>4. \A g \in DOMAIN grants' : \A r : r = grants'[g].cur => Known(g, r)'
    <3>1. CASE ok
      <4>1. Made(s)' /\ req'[s].refresh = given.refresh + 1 /\ req'[s].grant = given.grant + 1
        BY <1>0, <2>1, <3>1 DEF Issued, Made
      <4>2. \A g \in DOMAIN grants' :
              \/ g = given.grant + 1 /\ grants'[g].cur = given.refresh + 1
              \/ g \in DOMAIN grants /\ grants'[g] = grants[g]
        BY <2>1, <3>1 DEF With
      <4>3. \A g, r : g = given.grant + 1 /\ r = given.refresh + 1 => Known(g, r)'
        BY <4>1 DEF Known
      <4> QED
        BY <2>3, <4>2, <4>3 DEF KnownInv
    <3>2. CASE ~ok
      BY <2>1, <2>3, <3>2 DEF KnownInv
    <3> QED
      BY <3>1, <3>2
  <2> QED
    BY <1>1, <2>1, <2>3, <2>4, FileAfter
<1>7. ASSUME NEW s \in Slots, SpentAgain(s)
      PROVE  KnownInv'
  <2>1. ~Made(s) /\ UNCHANGED <<held, adrift>> /\ \E v : req' = [req EXCEPT ![s] = v]
    BY <1>7 DEF SpentAgain, Asked, Made, Finished
  <2>2. \A g, r : Known(g, r) => Known(g, r)'
    BY <1>2, <2>1
  <2> QED
    BY <1>1, <1>4, <1>7, <2>2 DEF SpentAgain, KnownInv
<1>8. ASSUME NEW s \in Slots, Refresh(s)
      PROVE  KnownInv'
  <2>1. PICK g \in DOMAIN grants, ok \in BOOLEAN :
          /\ given' = [given EXCEPT !.refresh = given.refresh + 1]
          /\ grants' = IF ok THEN Rotated(g, given'.refresh) ELSE Unrotated(g)
          /\ Save(ok)
          /\ IF ok THEN Issued(s, g, grants[g].user, given'.refresh) ELSE Finished(s)
    BY <1>8 DEF Refresh
  <2>2. ~Made(s) /\ UNCHANGED <<held, adrift>>
    BY <1>8 DEF Refresh, Asked, Made
  <2>3. \A h, r : Known(h, r) => Known(h, r)'
    BY <1>2, <2>1, <2>2 DEF Issued, Finished
  <2>4. \A h \in DOMAIN grants' : \A r : r = grants'[h].cur => Known(h, r)'
    <3>1. CASE ok
      <4>1. Made(s)' /\ req'[s].refresh = given'.refresh /\ req'[s].grant = g
        BY <1>0, <2>1, <3>1 DEF Issued, Made
      <4>2. \A r : r = given'.refresh => Known(g, r)'
        BY <4>1 DEF Known
      <4>3. given'.refresh \in Nat
        BY <1>0, <2>1, RefreshCounted
      <4>4. /\ DOMAIN grants' = DOMAIN grants
            /\ \A h \in DOMAIN grants : grants'[h].cur = IF h = g THEN given'.refresh ELSE grants[h].cur
        BY <1>0, <2>1, <3>1, <4>3, GrantRotated
      <4> QED
        BY <2>3, <4>2, <4>4 DEF KnownInv
    <3>2. CASE ~ok
      BY <2>1, <2>3, <3>2 DEF Unrotated, KnownInv
    <3> QED
      BY <3>1, <3>2
  <2> QED
    BY <1>1, <2>1, <2>3, <2>4, FileAfter
(* What a request knew of is answered, lost or withheld with it.           *)
<1>9. ASSUME NEW s \in Slots, Made(s), Finished(s), held \subseteq held', adrift \subseteq adrift',
             req[s].refresh \in held' \/ req[s].grant \in adrift'
      PROVE  \A g, r : Known(g, r) => Known(g, r)'
  <2>1. \A t \in Slots : t # s => req'[t] = req[t]
    BY <1>0, <1>9 DEF Finished
  <2> QED
    BY <1>9, <2>1 DEF Known, Made
<1>10. ASSUME NEW s \in Slots, Answer(s)
       PROVE  KnownInv'
  <2>1. \A g, r : Known(g, r) => Known(g, r)'
    BY <1>9, <1>10 DEF Answer
  <2> QED
    BY <1>1, <1>10, <2>1 DEF Answer, KnownInv
<1>11. ASSUME NEW s \in Slots, Withhold(s)
       PROVE  KnownInv'
  <2>1. \A g, r : Known(g, r) => Known(g, r)'
    BY <1>9, <1>11 DEF Withhold
  <2>2. CASE req[s].grant \in DOMAIN grants
    BY <1>1, <1>4, <1>11, <2>1, <2>2 DEF Withhold, KnownInv
  <2>3. CASE req[s].grant \notin DOMAIN grants
    BY <1>1, <1>11, <2>1, <2>3 DEF Withhold, KnownInv
  <2> QED
    BY <2>2, <2>3
<1>12. ASSUME NEW g \in DOMAIN grants, VerifyAccess(g) \/ Revoke(g)
       PROVE  KnownInv'
  BY <1>1, <1>3, <1>4, <1>12, FileAfter DEF VerifyAccess, Revoke, KnownInv
<1>13. ASSUME NEW r \in held, RevokeRefresh(r)
       PROVE  KnownInv'
  BY <1>1, <1>3, <1>4, <1>13 DEF RevokeRefresh, KnownInv
<1>14. CASE Restart
  <2>1. \A g, r : Known(g, r) => Known(g, r)'
    BY <1>14 DEF Restart, Known
  <2> QED
    BY <1>14, <2>1 DEF Restart, KnownInv
<1>15. CASE RegisterClient \/ \E u \in People : SetDisabled(u) \/ \E c \in clients : Consent(u, c)
  BY <1>1, <1>3, <1>15, FileAfter DEF RegisterClient, SetDisabled, Consent, KnownInv
<1>16. CASE UNCHANGED vars
  BY <1>16 DEF vars, KnownInv, Known, Made
<1> QED
  BY <1>5, <1>6, <1>7, <1>8, <1>10, <1>11, <1>12, <1>13, <1>14, <1>15, <1>16 DEF Next, Token

-----------------------------------------------------------------------------
(* The theorems about OAuth: for any people, any number of requests at the *)
(* same time and any bounds.                                               *)

OAuthInv == TypesInv /\ GrantHasClient /\ EndsInv /\ CodesInv /\ KnownInv

(* The five invariants hold together and each step keeps them (oauth.go,   *)
(* oauth_handlers.go).                                                     *)
THEOREM OAuthIsInductive == Spec => []OAuthInv
<1>1. Init => OAuthInv
  <2> SUFFICES ASSUME Init
               PROVE  OAuthInv
    OBVIOUS
  <2>1. grants \in [{} -> GrantRecords] /\ codes \in [{} -> [client : Nat, user : People]]
    BY DEF Init
  <2>2. grants \in GrantStores /\ codes \in CodeStores
    BY <2>1 DEF GrantStores, CodeStores
  <2>3. DOMAIN grants = {} /\ DOMAIN disk.grants = {} /\ DOMAIN codes = {} /\ DOMAIN madeFrom = {}
    BY DEF Init
  <2>4. TypesInv
    BY <2>2 DEF Init, TypesInv, Counters
  <2> QED
    BY <2>3, <2>4 DEF Init, OAuthInv, GrantHasClient, EndsInv, EndedStaysEnded, CodesInv,
                      OneGrantPerCode, IsInjective, KnownInv
<1>2. OAuthInv /\ [Next]_vars => OAuthInv'
  BY TypesKept, ClientsKept, EndsKept, CodesKept, KnownKept DEF OAuthInv
<1> QED
  BY <1>1, <1>2, PTL DEF Spec

(* Each grant is of a code of its own, and its client is registered, in    *)
(* memory and in the file (oauth.go, RegisterClient and ExchangeCode).     *)
THEOREM GrantsAlwaysInOrder == Spec => []GrantsInOrder
<1>1. OAuthInv => GrantsInOrder
  BY DEF OAuthInv, CodesInv, GrantsInOrder
<1> QED
  BY <1>1, OAuthIsInductive, PTL

(* A grant whose end was saved works no more, whatever rotation, undo of a *)
(* failed write or restart follows (oauth.go, revoke and RotateRefresh).   *)
THEOREM EndedStaysEndedAlways == Spec => []EndedStaysEnded
<1>1. OAuthInv => EndedStaysEnded
  BY DEF OAuthInv, EndsInv
<1> QED
  BY <1>1, OAuthIsInductive, PTL

(* No failed rotation and no restart leaves a client with a token that     *)
(* nobody wants (oauth.go, RotateRefresh: the grant as it was).            *)
THEOREM NeverStranded == Spec => []NotStranded
<1>1. OAuthInv => NotStranded
  BY DEF OAuthInv, KnownInv, Known, NotStranded
<1> QED
  BY <1>1, OAuthIsInductive, PTL

-----------------------------------------------------------------------------
(* Credentials: while no command on the host runs between the daemon's     *)
(* steps, what it has read of a file is what the file still holds.         *)

(* What is gone is in no copy and in no file, and what a command has read  *)
(* of the tokens is what their file holds.                                 *)
TokensInv ==
    /\ gone \cap (Store!TokenFile!Now \cup tokenFile) = {}
    /\ gone \cup tokenFile \subseteq minted
    /\ cli # Store!Idle => cli.tokens = tokenFile

(* What the daemon does of a token, and the command.                       *)
LEMMA TokensKept == ASSUME ~Overlap PROVE TokensInv /\ [Store!Next]_Store!vars => TokensInv'
<1> SUFFICES ASSUME TokensInv, [Store!Next]_Store!vars
             PROVE  TokensInv'
  OBVIOUS
<1>1. ASSUME UNCHANGED <<tokenMem, tokenFile, tokenSame, minted, gone>>, cli' = cli \/ cli' = Store!Idle
      PROVE  TokensInv'
  BY <1>1 DEF TokensInv, Store!TokenFile!Now
<1>2. ASSUME NEW s \in Updates, Store!SetRole(s) \/ Store!SetDisabled(s) \/ Store!UpsertByEmail(s) \/ Store!UpdateFails(s)
      PROVE  TokensInv'
  BY <1>1, <1>2 DEF Store!SetRole, Store!SetDisabled, Store!UpsertByEmail, Store!UpdateFails, Store!tokenVars
<1>3. ASSUME NEW s, NEW by, NEW p, NEW role, NEW off,
             Store!BeginUpdate(s, by, p, role, off) \/ Store!BeginUpsert(s, by, p, role, off)
      PROVE  TokensInv'
  BY <1>1, <1>3 DEF Store!BeginUpdate, Store!BeginUpsert, Store!tokenVars
<1>4. ASSUME NEW p, Store!FindOrCreateOIDC(p) \/ Store!TouchLogin(p)
      PROVE  TokensInv'
  BY <1>1, <1>4 DEF Store!FindOrCreateOIDC, Store!TouchLogin, Store!tokenVars
<1>5. ASSUME NEW t, Store!CreateToken(t)
      PROVE  TokensInv'
  <2>1. cli = Store!Idle /\ cli' = cli
    BY <1>5 DEF Store!CreateToken, Store!HostQuiet
  <2>2. /\ minted' = minted \cup {t} /\ t \notin minted /\ gone' = gone
        /\ tokenMem' = tokenFile \cup {t} /\ tokenSame'
        /\ tokenFile' \in {tokenFile, tokenFile \cup {t}}
    BY <1>5 DEF Store!CreateToken, Store!Reread, Store!TokenFile!Change
  <2> QED
    BY <2>1, <2>2 DEF TokensInv, Store!TokenFile!Now
<1>6. ASSUME NEW t, Store!RevokeToken(t)
      PROVE  TokensInv'
  <2>1. cli = Store!Idle /\ cli' = cli
    BY <1>6 DEF Store!RevokeToken, Store!HostQuiet
  <2>2. /\ minted' = minted /\ t \in tokenFile
        /\ tokenMem' = tokenFile \ {t} /\ tokenSame'
        /\ \/ gone' = gone \cup {t} /\ tokenFile' = tokenFile \ {t}
           \/ gone' = gone /\ tokenFile' = tokenFile
    BY <1>6 DEF Store!RevokeToken, Store!Reread, Store!TokenFile!Change
  <2> QED
    BY <2>1, <2>2 DEF TokensInv, Store!TokenFile!Now
<1>7. CASE Store!ListTokens
  BY <1>7 DEF Store!ListTokens, TokensInv, Store!TokenFile!Now
<1>8. ASSUME NEW what, Store!CommandReads(what)
      PROVE  TokensInv'
  <2>1. cli'.tokens = tokenFile
    BY <1>8 DEF Store!CommandReads
  <2> QED
    BY <1>8, <2>1 DEF Store!CommandReads, Store!tokenVars, TokensInv, Store!TokenFile!Now
<1>9. ASSUME NEW p, NEW a, Store!CommandSetsUser(p, a)
      PROVE  TokensInv'
  BY <1>1, <1>9 DEF Store!CommandSetsUser, Store!tokenVars
<1>10. ASSUME NEW t, Store!CommandCreatesToken(t) \/ Store!CommandRevokesToken(t)
       PROVE  TokensInv'
  <2>1. /\ cli' = Store!Idle /\ tokenSame' = FALSE
        /\ \/ t \notin minted /\ minted' = minted \cup {t} /\ tokenFile' = tokenFile \cup {t} /\ gone' = gone
           \/ t \in tokenFile /\ minted' = minted /\ tokenFile' = tokenFile \ {t} /\ gone' = gone \cup {t}
    BY <1>10 DEF Store!CommandCreatesToken, Store!CommandRevokesToken, Store!TokenFile!Replace, TokensInv
  <2> QED
    BY <2>1 DEF TokensInv, Store!TokenFile!Now
<1>11. CASE Store!CommandFails
  BY <1>1, <1>11 DEF Store!CommandFails, Store!tokenVars
<1>12. CASE Store!Restart
  BY <1>12 DEF Store!Restart, Store!TokenFile!Start, TokensInv, Store!TokenFile!Now
<1>13. CASE UNCHANGED Store!vars
  BY <1>1, <1>13 DEF Store!vars, Store!tokenVars
<1> QED
  BY <1>2, <1>3, <1>4, <1>5, <1>6, <1>7, <1>8, <1>9, <1>10, <1>11, <1>12, <1>13 DEF Store!Next

(* A token whose revocation was answered is refused from then on, and does *)
(* not come back from a copy that the daemon or a command still had        *)
(* (tokens.go, Revoke).                                                    *)
THEOREM RevokedAlwaysRefused == ASSUME ~Overlap PROVE Store!Spec => []RevokedIsRefused
<1>1. Store!Init => TokensInv
  BY DEF Store!Init, TokensInv, Store!TokenFile!Now
<1>2. TokensInv /\ [Store!Next]_Store!vars => TokensInv'
  BY TokensKept
<1>3. TokensInv => RevokedIsRefused
  BY DEF TokensInv, RevokedIsRefused, Store!RevokedIsRefused
<1> QED
  BY <1>1, <1>2, <1>3, PTL DEF Store!Spec

(* The requests about an account, what is known of each when no command is *)
(* half done, and what a command has read.                                 *)
UserRequests == {Store!Idle} \cup [at : {"update", "upsert"}, who : Accounts,
                                   role : Store!Roles \cup {"-"}, off : {"-", "yes", "no"}]

UsersInv ==
    /\ DOMAIN userMem = Accounts /\ userMem = [p \in Accounts |-> userMem[p]]
    /\ DOMAIN userFile = Accounts /\ userFile = [p \in Accounts |-> userFile[p]]
    /\ said = [p \in Accounts |-> said[p]]
    /\ update \in [Updates -> UserRequests]
    /\ userOwner = "daemon"
    /\ \A p \in Accounts : Store!Users!Now[p] \in said[p] /\ userFile[p] \in said[p]
    /\ cli # Store!Idle => cli.users = userFile

(* One account is set, whether it could be saved or not.                   *)
LEMMA AccountSet ==
    ASSUME UsersInv, NEW p \in Accounts, NEW a, NEW ok \in BOOLEAN, Store!SetAccount(p, a, ok),
           cli = Store!Idle, UNCHANGED cli, update' \in [Updates -> UserRequests]
    PROVE  UsersInv'
<1> DEFINE new == [Store!Users!Now EXCEPT ![p] = a]
<1>1. Store!Users!Now = [q \in Accounts |-> Store!Users!Now[q]]
  BY DEF UsersInv, Store!Users!Now
<1>2. /\ userMem' = new /\ userSame'
      /\ (ok /\ userFile' = new /\ userOwner' = "daemon") \/ (~ok /\ UNCHANGED <<userFile, userOwner>>)
      /\ said' = [said EXCEPT ![p] = IF ok THEN {a} ELSE @ \cup {a}]
  BY DEF Store!SetAccount, Store!Users!Change
<1>3. /\ DOMAIN new = Accounts /\ new = [q \in Accounts |-> new[q]]
      /\ \A q \in Accounts : new[q] = IF q = p THEN a ELSE Store!Users!Now[q]
  BY <1>1
<1>4. /\ said' = [q \in Accounts |-> said'[q]]
      /\ \A q \in Accounts \ {p} : said'[q] = said[q]
      /\ a \in said'[p] /\ (~ok => said[p] \subseteq said'[p])
  BY <1>2 DEF UsersInv
<1> HIDE DEF new
<1>5. Store!Users!Now' = new
  BY <1>2 DEF Store!Users!Now
<1> QED
  BY <1>2, <1>3, <1>4, <1>5 DEF UsersInv

(* What the daemon does of an account, and the command.                    *)
LEMMA UsersKept == ASSUME ~Overlap, HostUser = "daemon" PROVE UsersInv /\ [Store!Next]_Store!vars => UsersInv'
<1> SUFFICES ASSUME UsersInv, [Store!Next]_Store!vars
             PROVE  UsersInv'
  OBVIOUS
<1>1. ASSUME UNCHANGED <<userMem, userFile, userSame, userOwner, said>>, update' \in [Updates -> UserRequests],
             cli' = cli \/ cli' = Store!Idle
      PROVE  UsersInv'
  BY <1>1 DEF UsersInv, Store!Users!Now
<1>2. \A s \in Updates : update[s] # Store!Idle => update[s].who \in Accounts
  BY DEF UsersInv, UserRequests
<1>3. ASSUME NEW s \in Updates, NEW ok, NEW rest, Store!Left(s, ok, rest), update[s] # Store!Idle
      PROVE  update' \in [Updates -> UserRequests]
  BY <1>3 DEF Store!Left, UsersInv, UserRequests
<1>4. Store!HostQuiet => cli = Store!Idle
  BY DEF Store!HostQuiet
<1>5. ASSUME NEW s \in Updates, Store!SetRole(s) \/ Store!SetDisabled(s) \/ Store!UpsertByEmail(s)
      PROVE  UsersInv'
  <2>1. update[s] # Store!Idle /\ cli = Store!Idle /\ UNCHANGED cli
    BY <1>4, <1>5 DEF Store!SetRole, Store!SetDisabled, Store!UpsertByEmail, Store!Idle
  <2>2. \E a, rest : \E ok \in BOOLEAN : Store!SetAccount(update[s].who, a, ok) /\ Store!Left(s, ok, rest)
    BY <1>5 DEF Store!SetRole, Store!SetDisabled, Store!UpsertByEmail
  <2> QED
    BY <1>2, <1>3, <2>1, <2>2, AccountSet
<1>6. ASSUME NEW s \in Updates, Store!UpdateFails(s)
      PROVE  UsersInv'
  <2>1. update' \in [Updates -> UserRequests]
    BY <1>6 DEF Store!UpdateFails, UsersInv, UserRequests
  <2> QED
    BY <1>1, <1>6, <2>1 DEF Store!UpdateFails, Store!userVars
<1>7. ASSUME NEW s \in Updates, NEW by \in Callers, NEW p \in Accounts, NEW role \in Store!Roles \cup {"-"}, NEW off \in {"-", "yes", "no"},
             Store!BeginUpdate(s, by, p, role, off) \/ Store!BeginUpsert(s, by, p, role, off)
      PROVE  UsersInv'
  <2>1. PICK at \in {"update", "upsert"} :
             update' = [update EXCEPT ![s] = [at |-> at, who |-> p, role |-> role, off |-> off]]
    BY <1>7 DEF Store!BeginUpdate, Store!BeginUpsert
  <2>2. update' \in [Updates -> UserRequests]
    BY <2>1 DEF UsersInv, UserRequests
  <2> QED
    BY <1>1, <1>7, <2>2 DEF Store!BeginUpdate, Store!BeginUpsert, Store!userVars
<1>8. ASSUME NEW ok \in BOOLEAN, Store!SaveAsIs(ok), Store!HostQuiet, UNCHANGED <<update, cli>>
      PROVE  UsersInv'
  <2>1. /\ userMem' = Store!Users!Now /\ userSame' /\ said' = said /\ userOwner' = "daemon"
        /\ userFile' \in {userFile, Store!Users!Now}
    BY <1>8 DEF Store!SaveAsIs, Store!Users!Change, UsersInv
  <2>2. Store!Users!Now \in {userMem, userFile}
    BY DEF Store!Users!Now
  <2>3. Store!Users!Now' = Store!Users!Now
    BY <2>1 DEF Store!Users!Now
  <2> QED
    BY <1>4, <1>8, <2>1, <2>2, <2>3 DEF UsersInv
<1>9. ASSUME NEW p \in Accounts, Store!FindOrCreateOIDC(p) \/ Store!TouchLogin(p)
      PROVE  UsersInv'
  <2>1. \E ok \in BOOLEAN : Store!SaveAsIs(ok) \/ \E a : Store!SetAccount(p, a, ok)
    BY <1>9 DEF Store!FindOrCreateOIDC, Store!TouchLogin
  <2>2. Store!HostQuiet /\ UNCHANGED <<update, cli>>
    BY <1>9 DEF Store!FindOrCreateOIDC, Store!TouchLogin
  <2>3. update' \in [Updates -> UserRequests]
    BY <2>2 DEF UsersInv
  <2> QED
    BY <1>4, <1>8, <2>1, <2>2, <2>3, AccountSet
<1>10. ASSUME NEW t, Store!CreateToken(t) \/ Store!RevokeToken(t) \/ Store!CommandCreatesToken(t)
                      \/ Store!CommandRevokesToken(t) \/ Store!ListTokens \/ Store!CommandFails
       PROVE  UsersInv'
  <2>1. update' \in [Updates -> UserRequests]
    BY <1>10 DEF Store!CreateToken, Store!RevokeToken, Store!CommandCreatesToken, Store!CommandRevokesToken,
         Store!ListTokens, Store!CommandFails, UsersInv
  <2> QED
    BY <1>1, <1>10, <2>1 DEF Store!CreateToken, Store!RevokeToken, Store!CommandCreatesToken,
         Store!CommandRevokesToken, Store!ListTokens, Store!CommandFails, Store!userVars
<1>11. ASSUME NEW what, Store!CommandReads(what)
       PROVE  UsersInv'
  <2>1. cli'.users = userFile
    BY <1>11 DEF Store!CommandReads
  <2> QED
    BY <1>11, <2>1 DEF Store!CommandReads, Store!userVars, UsersInv, Store!Users!Now
<1>12. ASSUME NEW p \in Accounts, NEW a, Store!CommandSetsUser(p, a)
       PROVE  UsersInv'
  <2>1. /\ cli' = Store!Idle /\ userSame' = FALSE /\ userOwner' = "daemon" /\ UNCHANGED <<userMem, update>>
        /\ userFile' = [userFile EXCEPT ![p] = a] /\ said' = [said EXCEPT ![p] = {a}]
    BY <1>12 DEF Store!CommandSetsUser, Store!Users!Replace, UsersInv
  <2>2. /\ \A q \in Accounts : userFile'[q] \in said'[q]
        /\ DOMAIN userFile' = Accounts /\ userFile' = [q \in Accounts |-> userFile'[q]]
        /\ said' = [q \in Accounts |-> said'[q]]
    BY <2>1 DEF UsersInv
  <2> QED
    BY <2>1, <2>2 DEF UsersInv, Store!Users!Now
<1>13. CASE Store!Restart
  <2>1. update' \in [Updates -> UserRequests]
    BY <1>13 DEF Store!Restart, UserRequests
  <2> QED
    BY <1>13, <2>1 DEF Store!Restart, Store!Users!Start, UsersInv, Store!Users!Now
<1>14. CASE UNCHANGED Store!vars
  <2>1. update' \in [Updates -> UserRequests]
    BY <1>14 DEF Store!vars, UsersInv
  <2> QED
    BY <1>1, <1>14, <2>1 DEF Store!vars, Store!userVars
<1> QED
  BY <1>5, <1>6, <1>7, <1>9, <1>10, <1>11, <1>12, <1>13, <1>14 DEF Store!Next

(* A change of an account that was answered stands until the next change   *)
(* of it, in what the daemon goes by and in the file, whatever is changed  *)
(* of other accounts and whichever save fails (users.go).                  *)
THEOREM ChangesAlwaysStand == ASSUME ~Overlap, HostUser = "daemon" PROVE Store!Spec => []ChangesStand
<1>1. Store!Init => UsersInv
  BY DEF Store!Init, Store!FirstUsers, UsersInv, UserRequests, Store!Users!Now
<1>2. UsersInv /\ [Store!Next]_Store!vars => UsersInv'
  BY UsersKept
<1>3. UsersInv => ChangesStand
  BY DEF UsersInv, ChangesStand, Store!ChangesStand, Store!Seen, Store!Users!Readable
<1> QED
  BY <1>1, <1>2, <1>3, PTL DEF Store!Spec

-----------------------------------------------------------------------------
(* EventFeed: a live page that does not show what there is, and need not   *)
(* be old, has a note or a read under way that will tell it.               *)

FeedNotes == [type : {"hello", "change", "closed"}, topics : SUBSET Topics, status : Nat]
FeedConns == [at : Feed!At, pending : SUBSET Topics, wake : BOOLEAN, note : FeedNotes, cut : BOOLEAN]
FeedPages == [topic : Topics, live : BOOLEAN, reading : {"no", "asked", "answered"},
              got : Nat, again : BOOLEAN, shows : Nat, error : BOOLEAN]

FeedHubs == [status : Nat, reader : {"rest", "read", "publish"}, wake : BOOLEAN, closed : BOOLEAN, due : Nat]

FeedTypes ==
    /\ truth \in [Topics -> Nat]
    /\ hub \in FeedHubs
    /\ conn \in [OpenPages -> FeedConns]
    /\ wire \in [OpenPages -> Seq(FeedNotes)]
    /\ page \in [OpenPages -> FeedPages]
    /\ missed \in [OpenPages -> {"nothing", "unsaved", "untold", "dropped", "overtaken"}]

(* What p follows, as it was last told of, and a note that tells it.       *)
Told(p) == IF page[p].topic = "status" THEN hub.status ELSE truth[page[p].topic]
Tells(p, m) == m.type = "change" /\ page[p].topic \in m.topics

(* What will make p read, or show something: a note that is being made or  *)
(* is on its way, the beginning or the end of the connection, a read.      *)
OnItsWay(p) ==
    \/ page[p].topic \in conn[p].pending
    \/ conn[p].at = "write" /\ page[p].topic \in conn[p].note.topics
    \/ \E i \in DOMAIN wire[p] :
          \/ wire[p][i].type # "change"
          \/ Tells(p, wire[p][i]) /\ (page[p].topic = "status" => wire[p][i].status >= Told(p))
Reading(p) ==
    \/ page[p].reading = "asked"
    \/ page[p].reading = "answered" /\ (page[p].again \/ page[p].got >= Told(p))

Current(p) ==
    page[p].live /\ missed[p] = "nothing" =>
        \/ page[p].topic = "status" /\ hub.reader = "publish"
        \/ page[p].topic = "plans" /\ hub.due > 0
        \/ OnItsWay(p) \/ Reading(p)
        \/ page[p].shows >= Told(p)
        \/ page[p].error /\ page[p].reading = "no"

(* A connection, and what it has sent.                                     *)
Connected(p) ==
    /\ conn[p].at = "none" => IF wire[p] = <<>> THEN ~page[p].live
                                                ELSE wire[p][Len(wire[p])].type = "closed"
    /\ conn[p].at \in {"signing", "joining", "hello"} => wire[p] = <<>> /\ ~page[p].live
    /\ conn[p].at \in {"hello", "wait", "write"} /\ ~conn[p].wake => conn[p].pending = {}
    /\ conn[p].at \in {"none", "signing", "joining"} => conn[p].pending = {}
    /\ conn[p].at = "write" => conn[p].note.type = "change"
    /\ hub.closed /\ p \in Feed!subs => conn[p].cut

(* Nothing is newer than what there is.                                    *)
NotNewer(p) ==
    /\ page[p].shows <= truth[page[p].topic]
    /\ page[p].reading = "answered" => page[p].got <= truth[page[p].topic]
    /\ page[p].topic = "status" => \A i \in DOMAIN wire[p] :
          Tells(p, wire[p][i]) => wire[p][i].status <= hub.status

PageInv(p) == Current(p) /\ Connected(p) /\ NotNewer(p)

FeedInv ==
    /\ FeedTypes /\ hub.status <= truth["status"]
    /\ \A p \in OpenPages : PageInv(p)

(* The status and the plans are among finitely many topics, and a note has *)
(* some room.                                                              *)
FeedAssumed == {"status", "plans"} \subseteq Topics /\ IsFiniteSet(Topics) /\ MaxPending \in Nat

(* A message is sent last, and heard first.                                *)
LEMMA SentLast ==
  ASSUME NEW S, NEW w \in Seq(S), NEW m \in S
  PROVE  LET v == Append(w, m)
         IN  /\ v \in Seq(S) /\ v # <<>> /\ DOMAIN w = 1 .. Len(w) /\ DOMAIN v = 1 .. Len(w) + 1
             /\ Len(w) \in Nat /\ Len(v) = Len(w) + 1 /\ v[Len(w) + 1] = m
             /\ \A i \in DOMAIN w : i \in DOMAIN v /\ v[i] = w[i]
  OBVIOUS

LEMMA HeardFirst ==
  ASSUME NEW S, NEW w \in Seq(S), w # <<>>
  PROVE  LET v == Tail(w)
         IN  /\ v \in Seq(S) /\ DOMAIN w = 1 .. Len(w) /\ DOMAIN v = 1 .. Len(w) - 1
             /\ Len(w) \in Nat \ {0} /\ Len(v) = Len(w) - 1 /\ Head(w) = w[1] /\ Head(w) \in S
             /\ \A i \in DOMAIN v : i + 1 \in DOMAIN w /\ v[i] = w[i + 1]
             /\ \A i \in DOMAIN w : i # 1 => i - 1 \in DOMAIN v /\ v[i - 1] = w[i]
             /\ Len(w) > 1 => v # <<>>
<1>1. Tail(w) \in Seq(S) /\ Len(w) \in Nat \ {0} /\ Len(Tail(w)) = Len(w) - 1
  OBVIOUS
<1>2. Len(<<>>) = 0
  OBVIOUS
<1>3. ASSUME Len(w) > 1
      PROVE  Tail(w) # <<>>
  <2>1. Len(Tail(w)) # 0
    BY <1>1, <1>3, SMTT(30)
  <2> QED
    BY <2>1, <1>2
<1> QED
  BY <1>1, <1>3

(* A step of one page, or of its connection, leaves the others alone.      *)
Alone(p) ==
  /\ FeedTypes' /\ truth' = truth
  /\ hub'.status = hub.status /\ hub'.reader = hub.reader /\ hub'.closed = hub.closed /\ hub'.due = hub.due
  /\ \A q \in OpenPages \ {p} : conn'[q] = conn[q] /\ wire'[q] = wire[q]
                                   /\ page'[q] = page[q] /\ missed'[q] = missed[q]

LEMMA PageStep ==
  ASSUME FeedInv, NEW p \in OpenPages, Alone(p), PageInv(p)'
  PROVE  FeedInv'
<1>1. FeedTypes' /\ truth' = truth
      /\ hub'.status = hub.status /\ hub'.reader = hub.reader /\ hub'.closed = hub.closed /\ hub'.due = hub.due
  BY DEF Alone
<1>3. ASSUME NEW q \in OpenPages, q # p
      PROVE  PageInv(q)'
  <2>1. conn'[q] = conn[q] /\ wire'[q] = wire[q] /\ page'[q] = page[q] /\ missed'[q] = missed[q]
    BY <1>3 DEF Alone
  <2>2. PageInv(q)
    BY DEF FeedInv
  <2>3. q \in Feed!subs' <=> q \in Feed!subs
    BY <2>1 DEF Feed!subs
  <2>4. Current(q)'
    BY <2>1, <2>2, <1>1 DEF PageInv, Current, OnItsWay, Reading, Tells, Told
  <2>5. Connected(q)'
    BY <2>1, <2>2, <2>3, <1>1 DEF PageInv, Connected
  <2>6. NotNewer(q)'
    BY <2>1, <2>2, <1>1 DEF PageInv, NotNewer, Tells
  <2> QED
    BY <2>4, <2>5, <2>6 DEF PageInv
<1> QED
  BY <1>1, <1>3 DEF FeedInv

(* The connection ends: its page will be told.                             *)
LEMMA EndKept ==
  ASSUME FeedInv, NEW p \in OpenPages, Feed!End(p), UNCHANGED <<truth, hub, page, missed>>
  PROVE  FeedInv'
<1> DEFINE end == [type |-> "closed", topics |-> {}, status |-> 0]
           note == [type |-> "change", topics |-> {}, status |-> 0]
           c == [at |-> "none", pending |-> {}, wake |-> FALSE, note |-> note, cut |-> FALSE]
           w == Append(wire[p], end)
<1>1. /\ conn' = [conn EXCEPT ![p] = c] /\ wire' = [wire EXCEPT ![p] = w]
      /\ end \in FeedNotes /\ note \in FeedNotes
  BY DEF Feed!End, Feed!Sends, Feed!NoConn, Feed!Message, FeedNotes
<1>2. wire[p] \in Seq(FeedNotes) /\ page[p] \in FeedPages /\ PageInv(p)
      /\ conn \in [OpenPages -> FeedConns] /\ wire \in [OpenPages -> Seq(FeedNotes)]
      /\ page' = [page EXCEPT ![p] = page[p]] /\ missed' = [missed EXCEPT ![p] = missed[p]]
      /\ missed[p] \in {"nothing", "unsaved", "untold", "dropped", "overtaken"}
  BY DEF FeedInv, FeedTypes
<1>3. /\ w \in Seq(FeedNotes) /\ w # <<>> /\ DOMAIN w = 1 .. Len(wire[p]) + 1 /\ DOMAIN wire[p] = 1 .. Len(wire[p])
      /\ Len(wire[p]) \in Nat /\ Len(w) = Len(wire[p]) + 1 /\ w[Len(wire[p]) + 1] = end
      /\ \A i \in DOMAIN wire[p] : w[i] = wire[p][i]
  BY <1>1, <1>2, SentLast
<1>4. c \in FeedConns /\ c.at = "none" /\ c.pending = {} /\ end.type = "closed"
  BY <1>1 DEF FeedConns, Feed!At
<1> HIDE DEF end, c, w
<1>5. conn'[p] = c /\ wire'[p] = w
  BY <1>1, <1>2
<1>6. Current(p)'
  <2>1. Len(w) \in DOMAIN w /\ w[Len(w)].type = "closed"
    BY <1>3, <1>4
  <2> QED
    BY <1>5, <2>1 DEF Current, OnItsWay
<1>7. Connected(p)'
  BY <1>3, <1>4, <1>5 DEF Connected, Feed!subs
<1>8. NotNewer(p)'
  <2>1. \A i \in DOMAIN w : i \in DOMAIN wire[p] \/ w[i].type # "change"
    BY <1>3, <1>4
  <2> QED
    BY <1>2, <1>3, <1>5, <2>1 DEF PageInv, NotNewer, Tells
<1>9. Alone(p)
  BY <1>1, <1>2, <1>3, <1>4 DEF Alone, FeedInv, FeedTypes
<1> QED
  BY <1>6, <1>7, <1>8, <1>9, PageStep DEF PageInv

(* A step of the connection that sends nothing.                            *)
LEMMA ConnStep ==
  ASSUME FeedInv, NEW p \in OpenPages, NEW c \in FeedConns, conn' = [conn EXCEPT ![p] = c],
         hub' \in {hub, [hub EXCEPT !.wake = TRUE]},
         UNCHANGED <<truth, wire, page, missed>>,
         c.at = "none" => conn[p].at = "none",
         c.at \in {"signing", "joining", "hello"} => wire[p] = <<>> /\ ~page[p].live,
         c.at \in {"hello", "wait", "write"} /\ ~c.wake => c.pending = {},
         c.at \in {"none", "signing", "joining"} => c.pending = {},
         c.at = "write" => c.note.type = "change",
         hub.closed /\ c.at \in {"hello", "wait", "flush", "write"} => c.cut,
         page[p].live => /\ \/ conn[p].pending \subseteq c.pending
                            \/ c.at = "write" /\ conn[p].pending \subseteq c.note.topics
                         /\ conn[p].at = "write" => c.at = "write" /\ c.note = conn[p].note
  PROVE  FeedInv'
<1>1. /\ wire' = [wire EXCEPT ![p] = wire[p]] /\ page' = [page EXCEPT ![p] = page[p]]
      /\ missed' = [missed EXCEPT ![p] = missed[p]]
      /\ wire[p] \in Seq(FeedNotes) /\ page[p] \in FeedPages
      /\ missed[p] \in {"nothing", "unsaved", "untold", "dropped", "overtaken"} /\ PageInv(p)
      /\ conn'[p] = c /\ wire'[p] = wire[p] /\ page'[p] = page[p] /\ missed'[p] = missed[p]
      /\ hub'.status = hub.status /\ hub'.reader = hub.reader /\ hub'.closed = hub.closed /\ hub'.due = hub.due
  BY DEF FeedInv, FeedTypes, FeedHubs
<1>2. Current(p)'
  BY <1>1 DEF PageInv, Current, OnItsWay, Reading, Tells, Told
<1>3. Connected(p)'
  BY <1>1 DEF PageInv, Connected, Feed!subs
<1>4. NotNewer(p)'
  BY <1>1 DEF PageInv, NotNewer, Tells
<1>5. Alone(p)
  BY <1>1 DEF Alone, FeedInv, FeedTypes, FeedHubs
<1> QED
  BY <1>2, <1>3, <1>4, <1>5, PageStep DEF PageInv

(* The same count, by the name it has in the instance.                     *)
LEMMA FeedCounts == \A S : Feed!Cardinality(S) = Cardinality(S)
  BY DEF Feed!Cardinality, Cardinality

(* A topic is noted for every connection that has joined.                  *)
LEMMA Noted ==
  ASSUME FeedAssumed, NEW c \in FeedConns, NEW t \in Topics
  PROVE  LET k == Feed!add(c, t)
         IN  /\ k \in FeedConns /\ k.at = c.at /\ k.wake /\ k.note = c.note /\ k.cut = c.cut
             /\ c.pending \subseteq k.pending /\ (t \in k.pending \/ Feed!Dropped(c, t))
<1> DEFINE more == IF Cardinality(c.pending) < MaxPending THEN c.pending \cup {t} ELSE c.pending
<1>1. c.pending \subseteq Topics /\ Cardinality(c.pending) \in Nat /\ MaxPending \in Nat
  BY FS_Subset, FS_CardinalityType DEF FeedAssumed, FeedConns
<1>2. more \in SUBSET Topics /\ c.pending \subseteq more /\ (t \in more \/ Feed!Dropped(c, t))
  <2>1. CASE Cardinality(c.pending) < MaxPending
    BY <1>1, <2>1
  <2>2. CASE ~(Cardinality(c.pending) < MaxPending)
    <3>1. Cardinality(c.pending) >= MaxPending
      BY <1>1, <2>2
    <3> QED
      BY <1>1, <2>2, <3>1, FeedCounts DEF Feed!Dropped
  <2> QED
    BY <2>1, <2>2
<1>3. Feed!add(c, t) = [c EXCEPT !.pending = more, !.wake = TRUE]
  BY FeedCounts DEF Feed!add
<1> HIDE DEF more
<1> QED
  BY <1>2, <1>3 DEF FeedConns

(* What a publish does to every page that follows its topic: it will be    *)
(* told, or is known not to be.                                            *)
LEMMA Published ==
  ASSUME FeedAssumed, FeedInv, NEW t \in Topics, Feed!publish(t), UNCHANGED <<wire, page>>,
         truth' \in [Topics -> Nat], \A u \in Topics : truth[u] <= truth'[u],
         \A u \in Topics : u # t => truth'[u] = truth[u],
         hub' \in FeedHubs, hub'.status = hub.status, hub'.closed = hub.closed,
         hub.reader = "publish" /\ t # "status" => hub'.reader = "publish",
         hub.due > 0 /\ t # "plans" => hub'.due > 0
  PROVE  FeedInv'
<1>1. /\ conn' = [p \in OpenPages |-> IF p \in Feed!subs THEN Feed!add(conn[p], t) ELSE conn[p]]
      /\ missed' = [p \in OpenPages |->
           IF p \in Feed!subs /\ t = page[p].topic /\ Feed!Dropped(conn[p], t) THEN "dropped" ELSE missed[p]]
  BY DEF Feed!publish
<1>2. FeedTypes
  BY DEF FeedInv
<1>3. ASSUME NEW p \in OpenPages
      PROVE  /\ conn'[p] \in FeedConns /\ conn'[p].at = conn[p].at /\ conn'[p].note = conn[p].note
             /\ conn'[p].cut = conn[p].cut /\ conn[p].pending \subseteq conn'[p].pending
             /\ IF p \in Feed!subs THEN conn'[p].wake /\ (t \in conn'[p].pending \/ Feed!Dropped(conn[p], t))
                              ELSE conn'[p] = conn[p]
             /\ missed'[p] \in {"nothing", "unsaved", "untold", "dropped", "overtaken"}
             /\ missed'[p] = "nothing" => /\ missed[p] = "nothing"
                                          /\ p \in Feed!subs /\ t = page[p].topic => t \in conn'[p].pending
  <2>1. conn[p] \in FeedConns /\ missed[p] \in {"nothing", "unsaved", "untold", "dropped", "overtaken"}
    BY <1>2 DEF FeedTypes
  <2>2. conn'[p] = IF p \in Feed!subs THEN Feed!add(conn[p], t) ELSE conn[p]
    BY <1>1
  <2>3. missed'[p] = IF p \in Feed!subs /\ t = page[p].topic /\ Feed!Dropped(conn[p], t) THEN "dropped" ELSE missed[p]
    BY <1>1
  <2>4. CASE p \in Feed!subs
    BY <2>1, <2>2, <2>3, <2>4, Noted
  <2>5. CASE p \notin Feed!subs
    BY <2>1, <2>2, <2>3, <2>5
  <2> QED
    BY <2>4, <2>5
<1>4. FeedTypes'
  BY <1>1, <1>2, <1>3 DEF FeedTypes
<1>5. hub'.status <= truth'["status"]
  BY <1>2 DEF FeedInv, FeedTypes, FeedAssumed, FeedHubs
<1>6. ASSUME NEW p \in OpenPages
      PROVE  PageInv(p)'
  <2>1. PageInv(p) /\ conn[p] \in FeedConns /\ page[p] \in FeedPages /\ page[p].topic \in Topics
        /\ wire'[p] = wire[p] /\ page'[p] = page[p]
    BY <1>2 DEF FeedInv, FeedTypes, FeedPages
  <2>2. p \in Feed!subs' <=> p \in Feed!subs
    BY <1>3 DEF Feed!subs
  <2>3. Connected(p)'
    BY <1>3, <2>1, <2>2 DEF PageInv, Connected, Feed!subs
  <2>4. NotNewer(p)'
    BY <1>2, <1>5, <2>1 DEF PageInv, NotNewer, Tells, FeedTypes, FeedPages
  <2>5. ASSUME page[p].live, missed'[p] = "nothing", page[p].topic = t
        PROVE  OnItsWay(p)'
    <3>1. CASE p \in Feed!subs
      BY <1>3, <2>1, <2>5, <3>1 DEF OnItsWay
    <3>2. CASE p \notin Feed!subs
      <4>1. conn[p].at = "none" /\ wire[p] # <<>> /\ wire[p][Len(wire[p])].type = "closed"
        BY <2>1, <2>5, <3>2 DEF PageInv, Connected, Feed!subs, FeedConns, Feed!At
      <4>2. Len(wire[p]) \in DOMAIN wire[p]
        BY <1>2, <4>1 DEF FeedTypes
      <4> QED
        BY <2>1, <4>1, <4>2 DEF OnItsWay
    <3> QED
      BY <3>1, <3>2
  <2>6. ASSUME page[p].topic # t
        PROVE  Told(p)' = Told(p)
    BY <2>1, <2>6 DEF Told
  <2>7. ASSUME page[p].topic # t
        PROVE  Current(p)'
    BY <1>3, <2>1, <2>6, <2>7 DEF PageInv, Current, OnItsWay, Reading, Tells
  <2> QED
    BY <2>1, <2>3, <2>4, <2>5, <2>7 DEF PageInv, Current
<1> QED
  BY <1>4, <1>5, <1>6 DEF FeedInv

(* What the daemon alone does.                                             *)
LEMMA DaemonKept ==
  ASSUME FeedAssumed, FeedInv,
         \/ \E t \in Topics : Feed!Change(t) \/ Feed!ChangeUnsaved(t) \/ Feed!ChangeUntold(t)
         \/ Feed!JobEnds \/ Feed!SayPlans
         \/ Feed!HostChanges \/ Feed!ReaderGoes \/ Feed!ReadStatus \/ Feed!ReadStatusFails
         \/ Feed!PublishStatus \/ Feed!closeAll
  PROVE  FeedInv'
<1> DEFINE Hubs == FeedHubs
<1>1. /\ FeedTypes /\ hub \in Hubs /\ hub.status <= truth["status"] /\ truth \in [Topics -> Nat]
      /\ "status" \in Topics /\ "plans" \in Topics
  BY DEF FeedInv, FeedTypes, FeedAssumed
<1>2. ASSUME NEW t \in Topics, Feed!Change(t)
      PROVE  FeedInv'
  BY <1>1, <1>2, Published DEF Feed!Change
<1>3. ASSUME Feed!PublishStatus
      PROVE  FeedInv'
  BY <1>1, <1>3, Published DEF Feed!PublishStatus, FeedHubs
<1>12. ASSUME Feed!SayPlans
       PROVE  FeedInv'
  <2>1. /\ hub' = [hub EXCEPT !.due = @ - 1] /\ hub.due > 0 /\ Feed!publish("plans")
        /\ UNCHANGED <<truth, wire, page>>
    BY <1>12 DEF Feed!SayPlans
  <2>2. /\ hub' \in FeedHubs /\ hub'.status = hub.status /\ hub'.closed = hub.closed
        /\ hub'.reader = hub.reader
    BY <1>1, <2>1 DEF FeedHubs
  <2>3. \A u \in Topics : truth[u] <= truth'[u] /\ truth'[u] = truth[u]
    BY <1>1, <2>1
  <2> HIDE DEF Hubs
  <2> QED
    BY <1>1, <2>1, <2>2, <2>3, Published
<1>4. ASSUME UNCHANGED <<truth, conn, wire, page, missed>>, hub' \in Hubs, hub'.closed = hub.closed,
             hub.status <= hub'.status, hub'.status <= truth["status"], hub'.due = hub.due,
             hub.reader = "publish" => hub'.reader = "publish",
             hub'.status # hub.status => hub'.reader = "publish"
      PROVE  FeedInv'
  <2>1. FeedTypes'
    BY <1>1, <1>4 DEF FeedTypes
  <2>2. ASSUME NEW p \in OpenPages
        PROVE  PageInv(p)'
    <3>1. PageInv(p) /\ page[p] \in FeedPages /\ wire[p] \in Seq(FeedNotes)
      BY <1>1 DEF FeedInv, FeedTypes
    <3>2. Current(p)'
      BY <1>4, <3>1 DEF PageInv, Current, OnItsWay, Reading, Tells, Told
    <3>3. Connected(p)'
      BY <1>4, <3>1 DEF PageInv, Connected, Feed!subs
    <3>4. NotNewer(p)'
      <4>1. \A i \in DOMAIN wire[p] : wire[p][i].status \in Nat
        <5>1. \A i \in DOMAIN wire[p] : wire[p][i] \in FeedNotes
          BY <3>1
        <5> QED
          BY <5>1 DEF FeedNotes
      <4> QED
        BY <1>1, <1>4, <3>1, <4>1 DEF PageInv, NotNewer, Tells, FeedHubs
    <3> QED
      BY <3>2, <3>3, <3>4 DEF PageInv
  <2> QED
    BY <1>1, <1>4, <2>1, <2>2 DEF FeedInv
<1>5. ASSUME Feed!ReaderGoes
      PROVE  FeedInv'
  <2> DEFINE called == IF Feed!count = 0 THEN FALSE ELSE hub.wake
  <2>1. /\ hub' = [hub EXCEPT !.reader = "read", !.wake = called] /\ hub.reader = "rest"
        /\ UNCHANGED <<truth, conn, wire, page, missed>>
    BY <1>5 DEF Feed!ReaderGoes
  <2>2. called \in BOOLEAN
    BY <1>1 DEF FeedHubs
  <2> HIDE DEF called
  <2>3. /\ hub' \in Hubs /\ hub'.closed = hub.closed /\ hub'.status = hub.status
        /\ hub.reader # "publish" /\ hub.status \in Nat /\ hub'.due = hub.due
    BY <1>1, <2>1, <2>2 DEF FeedHubs
  <2> HIDE DEF Hubs
  <2> QED
    BY <1>1, <1>4, <2>1, <2>3
<1>6. ASSUME Feed!ReadStatus
      PROVE  FeedInv'
  <2> DEFINE then == IF hub.status # truth["status"] THEN "publish" ELSE "rest"
  <2>1. hub' = [hub EXCEPT !.status = truth["status"], !.reader = then] /\ hub.reader = "read"
    BY <1>6 DEF Feed!ReadStatus
  <2>2. then \in {"publish", "rest"} /\ (hub.status # truth["status"] => then = "publish")
    OBVIOUS
  <2> HIDE DEF then
  <2>3. /\ hub' \in Hubs /\ hub'.closed = hub.closed /\ hub'.status = truth["status"]
        /\ hub'.reader = then /\ hub.reader # "publish" /\ hub'.due = hub.due
        /\ hub.status <= hub'.status /\ hub'.status <= truth["status"]
        /\ hub'.status # hub.status => hub'.reader = "publish"
    <3>1. truth["status"] \in Nat /\ hub.status \in Nat /\ then \in {"rest", "read", "publish"}
      BY <1>1, <2>2 DEF FeedHubs
    <3>2. /\ hub' \in Hubs /\ hub'.closed = hub.closed /\ hub'.status = truth["status"] /\ hub'.reader = then
          /\ hub'.due = hub.due
      BY <1>1, <2>1, <3>1 DEF FeedHubs
    <3> QED
      BY <1>1, <2>1, <2>2, <3>1, <3>2
  <2>4. UNCHANGED <<truth, conn, wire, page, missed>>
    BY <1>6 DEF Feed!ReadStatus
  <2> HIDE DEF Hubs
  <2> QED
    BY <1>4, <2>3, <2>4
<1>7. ASSUME Feed!ReadStatusFails
      PROVE  FeedInv'
  BY <1>1, <1>4, <1>7 DEF Feed!ReadStatusFails, FeedHubs
<1>8. ASSUME NEW t \in Topics, UNCHANGED <<conn, wire, page>>, truth' = [truth EXCEPT ![t] = @ + 1],
             NEW why \in {"unsaved", "untold"},
             \/ missed' = missed /\ (t = "status" \/ (t = "plans" /\ hub'.due > 0))
             \/ missed' = [p \in OpenPages |-> IF page[p].topic = t THEN why ELSE missed[p]],
             hub' \in Hubs, hub'.status = hub.status, hub'.reader = hub.reader, hub'.closed = hub.closed,
             hub'.due >= hub.due
      PROVE  FeedInv'
  <2>1. hub.due \in Nat /\ hub'.due \in Nat
    BY <1>1, <1>8 DEF FeedHubs
  <2>2. FeedTypes'
    BY <1>1, <1>8 DEF FeedTypes
  <2>3. hub'.status <= truth'["status"]
    BY <1>1, <1>8 DEF FeedHubs
  <2>4. ASSUME NEW p \in OpenPages
        PROVE  PageInv(p)'
    <3>1. PageInv(p) /\ page[p] \in FeedPages /\ page[p].topic \in Topics
      BY <1>1 DEF FeedInv, FeedTypes, FeedPages
    <3>4. Current(p)'
      <4>1. CASE page[p].topic = t /\ t = "plans" /\ hub'.due > 0
        BY <1>8, <4>1 DEF Current
      <4>2. CASE missed'[p] = why
        BY <4>2 DEF Current
      <4>3. CASE (page[p].topic # t \/ t = "status") /\ missed'[p] = missed[p]
        <5>1. Told(p)' = Told(p) /\ (missed'[p] = "nothing" => missed[p] = "nothing")
          BY <1>1, <1>8, <3>1, <4>3 DEF Told
        <5> QED
          BY <1>8, <2>1, <3>1, <5>1 DEF PageInv, Current, OnItsWay, Reading, Tells
      <4> QED
        BY <1>8, <4>1, <4>2, <4>3
    <3>5. Connected(p)'
      BY <1>8, <3>1 DEF PageInv, Connected, Feed!subs
    <3>6. NotNewer(p)'
      BY <1>1, <1>8, <3>1 DEF PageInv, NotNewer, Tells, FeedPages
    <3> QED
      BY <3>4, <3>5, <3>6 DEF PageInv
  <2> QED
    BY <2>2, <2>3, <2>4 DEF FeedInv
<1>9. ASSUME Feed!closeAll
      PROVE  FeedInv'
  <2>1. /\ UNCHANGED <<truth, wire, page, missed>> /\ hub' = [hub EXCEPT !.closed = TRUE]
        /\ conn' = [p \in OpenPages |-> IF p \in Feed!subs THEN [conn[p] EXCEPT !.cut = TRUE] ELSE conn[p]]
    BY <1>9 DEF Feed!closeAll
  <2>2. /\ hub'.status = hub.status /\ hub'.reader = hub.reader /\ hub' \in Hubs /\ hub'.due = hub.due
    BY <1>1, <2>1 DEF FeedHubs
  <2>3. ASSUME NEW p \in OpenPages
        PROVE  /\ conn'[p] \in FeedConns /\ conn'[p].at = conn[p].at /\ conn'[p].note = conn[p].note
               /\ conn'[p].pending = conn[p].pending /\ conn'[p].wake = conn[p].wake
               /\ p \in Feed!subs => conn'[p].cut
    BY <1>1, <2>1 DEF FeedTypes, FeedConns
  <2>4. FeedTypes'
    BY <1>1, <2>1, <2>2, <2>3 DEF FeedTypes
  <2>5. ASSUME NEW p \in OpenPages
        PROVE  PageInv(p)'
    <3>1. PageInv(p)
      BY DEF FeedInv
    <3>2. Current(p)'
      BY <2>1, <2>2, <2>3, <3>1 DEF PageInv, Current, OnItsWay, Reading, Tells, Told
    <3>3. Connected(p)'
      BY <2>1, <2>3, <3>1 DEF PageInv, Connected, Feed!subs
    <3>4. NotNewer(p)'
      BY <2>1, <2>2, <3>1 DEF PageInv, NotNewer, Tells
    <3> QED
      BY <3>2, <3>3, <3>4 DEF PageInv
  <2> QED
    BY <1>1, <2>1, <2>2, <2>4, <2>5 DEF FeedInv
<1>10. ASSUME Feed!HostChanges
       PROVE  FeedInv'
  <2>1. /\ truth' = [truth EXCEPT !["status"] = @ + 1] /\ UNCHANGED <<hub, conn, wire, page, missed>>
    BY <1>10 DEF Feed!HostChanges
  <2>2. "unsaved" \in {"unsaved", "untold"} /\ hub'.due >= hub.due
    BY <1>1, <2>1 DEF FeedHubs
  <2> HIDE DEF Hubs
  <2> QED
    BY <1>1, <1>8, <2>1, <2>2
<1>11. CASE \E t \in Topics : Feed!Change(t) \/ Feed!ChangeUnsaved(t) \/ Feed!ChangeUntold(t)
  <2>1. PICK t \in Topics : Feed!Change(t) \/ Feed!ChangeUnsaved(t) \/ Feed!ChangeUntold(t)
    BY <1>11
  <2>2. CASE Feed!Change(t)
    BY <1>2, <2>2
  <2>3. CASE Feed!ChangeUnsaved(t) \/ Feed!ChangeUntold(t)
    <3>1. PICK why \in {"unsaved", "untold"} :
            /\ t # "status" /\ UNCHANGED <<hub, conn, wire, page>> /\ truth' = [truth EXCEPT ![t] = @ + 1]
            /\ missed' = [p \in OpenPages |-> IF page[p].topic = t THEN why ELSE missed[p]]
      BY <2>3 DEF Feed!ChangeUnsaved, Feed!ChangeUntold, Feed!NotTold
    <3>2. hub.due \in Nat /\ hub' \in Hubs /\ hub'.status = hub.status /\ hub'.reader = hub.reader
          /\ hub'.closed = hub.closed /\ hub'.due = hub.due
      BY <1>1, <3>1 DEF FeedHubs
    <3>3. hub'.due >= hub.due
      BY <3>2
    <3> HIDE DEF Hubs
    <3> QED
      BY <1>8, <3>1, <3>2, <3>3
  <2> QED
    BY <2>1, <2>2, <2>3
<1>13. ASSUME Feed!JobEnds
       PROVE  FeedInv'
  <2>1. /\ truth' = [truth EXCEPT !["plans"] = @ + 1] /\ hub' = [hub EXCEPT !.due = @ + 1]
        /\ UNCHANGED <<conn, wire, page, missed>>
    BY <1>13 DEF Feed!JobEnds
  <2>2. /\ hub' \in Hubs /\ hub'.status = hub.status /\ hub'.reader = hub.reader /\ hub'.closed = hub.closed
        /\ hub'.due > 0 /\ hub'.due >= hub.due
    BY <1>1, <2>1 DEF FeedHubs
  <2> QED
    BY <1>1, <1>8, <2>1, <2>2
<1> QED
  BY <1>3, <1>5, <1>6, <1>7, <1>9, <1>10, <1>11, <1>12, <1>13

(* The handler of a connection, step by step (events.go, handleEvents).    *)
LEMMA ConnectionKept ==
  ASSUME FeedInv, NEW p \in OpenPages, Feed!Connection(p)
  PROVE  FeedInv'
<1> DEFINE c == conn[p]
<1>1. /\ FeedTypes /\ c \in FeedConns /\ conn \in [OpenPages -> FeedConns] /\ PageInv(p)
      /\ page[p] \in FeedPages /\ wire[p] \in Seq(FeedNotes) /\ wire \in [OpenPages -> Seq(FeedNotes)]
  BY DEF FeedInv, FeedTypes
<1>2. hub \in FeedHubs
  BY <1>1 DEF FeedTypes
<1>3. /\ c.at = "none" /\ wire[p] = <<>> => ~page[p].live
      /\ c.at \in {"signing", "joining", "hello"} => wire[p] = <<>> /\ ~page[p].live
      /\ c.at \in {"hello", "wait", "write"} /\ ~c.wake => c.pending = {}
      /\ c.at \in {"none", "signing", "joining"} => c.pending = {}
      /\ c.at = "write" => c.note.type = "change"
      /\ hub.closed /\ c.at \in {"hello", "wait", "flush", "write"} => c.cut
  BY <1>1 DEF PageInv, Connected, Feed!subs
<1>4. ASSUME NEW to \in {"signing", "joining"}, conn' = [conn EXCEPT ![p].at = to],
             c.at \in {"none", "signing"}, wire[p] = <<>>, ~page[p].live,
             UNCHANGED <<truth, hub, wire, page, missed>>
      PROVE  FeedInv'
  <2> DEFINE d == [c EXCEPT !.at = to]
  <2>1. d \in FeedConns /\ d.at = to /\ d.pending = {} /\ conn' = [conn EXCEPT ![p] = d]
    BY <1>1, <1>3, <1>4 DEF FeedConns, Feed!At
  <2> HIDE DEF d, c
  <2> QED
    BY <1>4, <2>1, ConnStep
<1>5. ASSUME Feed!Dial(p)
      PROVE  FeedInv'
  <2> DEFINE to == IF p \in Cookie THEN "joining" ELSE "signing"
  <2>1. /\ c.at = "none" /\ wire[p] = <<>> /\ ~page[p].live
        /\ conn' = [conn EXCEPT ![p].at = to] /\ UNCHANGED <<truth, hub, wire, page, missed>>
    BY <1>5 DEF Feed!Dial, Feed!Goes
  <2>2. to \in {"signing", "joining"}
    OBVIOUS
  <2> HIDE DEF to, c
  <2> QED
    BY <1>4, <2>1, <2>2
<1>6. ASSUME Feed!SignIn(p)
      PROVE  FeedInv'
  <2>1. /\ UNCHANGED <<truth, hub, page, missed>> /\ c.at = "signing"
        /\ \/ Feed!End(p)
           \/ conn' = [conn EXCEPT ![p].at = "joining"] /\ wire' = wire
    BY <1>6 DEF Feed!SignIn, Feed!Goes
  <2>2. CASE Feed!End(p)
    BY <2>1, <2>2, EndKept
  <2>3. CASE conn' = [conn EXCEPT ![p].at = "joining"] /\ wire' = wire
    BY <1>3, <1>4, <2>1, <2>3
  <2> QED
    BY <2>1, <2>2, <2>3
<1>7. ASSUME Feed!join(p)
      PROVE  FeedInv'
  <2> DEFINE note == [type |-> "change", topics |-> {}, status |-> 0]
             d == [at |-> "hello", pending |-> {}, wake |-> FALSE, note |-> note, cut |-> FALSE]
  <2>1. UNCHANGED <<truth, page, missed>> /\ c.at = "joining"
        /\ (\/ Feed!End(p) /\ hub' = hub
            \/ ~hub.closed /\ conn' = [conn EXCEPT ![p] = d] /\ hub' = [hub EXCEPT !.wake = TRUE] /\ wire' = wire)
    BY <1>7 DEF Feed!join, Feed!Full, Feed!NoConn, Feed!Message
  <2>2. CASE Feed!End(p) /\ hub' = hub
    BY <2>1, <2>2, EndKept
  <2>3. CASE ~hub.closed /\ conn' = [conn EXCEPT ![p] = d] /\ hub' = [hub EXCEPT !.wake = TRUE] /\ wire' = wire
    <3>1. note \in FeedNotes
      BY DEF FeedNotes
    <3>2. d \in FeedConns /\ d.at = "hello" /\ d.pending = {}
      BY <3>1 DEF FeedConns, Feed!At
    <3> HIDE DEF d, c
    <3> QED
      BY <1>3, <2>1, <2>3, <3>2, ConnStep
  <2> QED
    BY <2>1, <2>2, <2>3
<1>8. ASSUME Feed!Wakes(p)
      PROVE  FeedInv'
  <2> DEFINE d == [c EXCEPT !.at = "flush", !.wake = FALSE]
  <2>1. /\ c.at = "wait" /\ UNCHANGED <<truth, hub, wire, page, missed>>
        /\ conn' = [conn EXCEPT ![p].at = "flush", ![p].wake = FALSE]
    BY <1>8 DEF Feed!Wakes
  <2>2. /\ d \in FeedConns /\ d.at = "flush" /\ d.pending = c.pending /\ d.cut = c.cut
        /\ conn' = [conn EXCEPT ![p] = d]
    BY <1>1, <2>1 DEF FeedConns, Feed!At
  <2> HIDE DEF d, c
  <2> QED
    BY <1>3, <2>1, <2>2, ConnStep DEF c
<1>9. ASSUME Feed!Break(p)
      PROVE  FeedInv'
  <2> DEFINE d == [c EXCEPT !.cut = TRUE]
  <2>1. conn' = [conn EXCEPT ![p].cut = TRUE] /\ UNCHANGED <<truth, hub, wire, page, missed>>
    BY <1>9 DEF Feed!Break
  <2>2. /\ d \in FeedConns /\ d.at = c.at /\ d.pending = c.pending /\ d.cut /\ d.wake = c.wake /\ d.note = c.note
        /\ conn' = [conn EXCEPT ![p] = d]
    BY <1>1, <2>1 DEF FeedConns
  <2> HIDE DEF d, c
  <2>3. /\ d.at = "none" => conn[p].at = "none"
        /\ d.at \in {"signing", "joining", "hello"} => wire[p] = <<>> /\ ~page[p].live
        /\ d.at \in {"hello", "wait", "write"} /\ ~d.wake => d.pending = {}
        /\ d.at \in {"none", "signing", "joining"} => d.pending = {}
        /\ d.at = "write" => d.note.type = "change"
    BY <1>3, <2>2 DEF c
  <2>4. /\ conn[p].pending \subseteq d.pending
        /\ conn[p].at = "write" => d.at = "write" /\ d.note = conn[p].note
        /\ hub' \in {hub, [hub EXCEPT !.wake = TRUE]}
    BY <2>1, <2>2 DEF c
  <2> QED
    BY <2>1, <2>2, <2>3, <2>4, ConnStep
<1>10. ASSUME Feed!take(p)
       PROVE  FeedInv'
  <2> DEFINE note == [type |-> "change", topics |-> c.pending, status |-> 0]
             to == IF c.pending = {} THEN "wait" ELSE "write"
             d == [c EXCEPT !.pending = {}, !.note = note, !.at = to]
  <2>1. /\ c.at = "flush" /\ UNCHANGED <<truth, hub, wire, page, missed>>
        /\ conn' = [conn EXCEPT ![p].pending = {}, ![p].note = note, ![p].at = to]
    BY <1>10 DEF Feed!take, Feed!Message
  <2>2. note \in FeedNotes /\ note.type = "change" /\ note.topics = c.pending
    BY <1>1 DEF FeedNotes, FeedConns
  <2>3. to \in {"wait", "write"} /\ (to = "wait" => c.pending = {})
    OBVIOUS
  <2> HIDE DEF note, to
  <2>4. /\ d \in FeedConns /\ d.at = to /\ d.pending = {} /\ d.cut = c.cut /\ d.note = note
        /\ conn' = [conn EXCEPT ![p] = d]
    BY <1>1, <2>1, <2>2, <2>3 DEF FeedConns, Feed!At
  <2> HIDE DEF d
  <2> QED
    BY <1>3, <2>1, <2>2, <2>3, <2>4, ConnStep, ZenonT(60)
<1>11. ASSUME Feed!Notices(p) \/ Feed!Recheck(p)
       PROVE  FeedInv'
  BY <1>11, EndKept DEF Feed!Notices, Feed!Recheck
<1>12. ASSUME Feed!Revoke(p)
       PROVE  FeedInv'
  <2>1. conn' = [conn EXCEPT ![p] = c] /\ UNCHANGED <<truth, hub, wire, page, missed>>
    BY <1>1, <1>12 DEF Feed!Revoke
  <2> HIDE DEF c
  <2> QED
    BY <1>1, <1>3, <2>1, ConnStep DEF c
<1>13. ASSUME Feed!SayHello(p) \/ Feed!Write(p)
       PROVE  FeedInv'
  <2>1. PICK m \in FeedNotes, d \in FeedConns :
          /\ conn' = [conn EXCEPT ![p] = d] /\ wire' = [wire EXCEPT ![p] = Append(wire[p], m)]
          /\ UNCHANGED <<truth, hub, page, missed>>
          /\ d.at = "wait" /\ d.wake = c.wake /\ d.pending = c.pending /\ d.cut = c.cut
          /\ \/ c.at = "hello" /\ m.type = "hello"
             \/ /\ c.at = "write" /\ m.type = "change" /\ m.topics = c.note.topics
                /\ "status" \in m.topics => m.status = hub.status
    <3>1. CASE Feed!SayHello(p)
      <4> DEFINE m == [type |-> "hello", topics |-> {}, status |-> 0]
                 d == [c EXCEPT !.at = "wait"]
      <4>1. /\ c.at = "hello" /\ conn' = [conn EXCEPT ![p].at = "wait"]
            /\ wire' = [wire EXCEPT ![p] = Append(wire[p], m)] /\ UNCHANGED <<truth, hub, page, missed>>
        BY <3>1 DEF Feed!SayHello, Feed!Goes, Feed!Sends, Feed!Message
      <4>2. m \in FeedNotes /\ m.type = "hello"
        BY DEF FeedNotes
      <4>3. /\ d \in FeedConns /\ d.at = "wait" /\ d.wake = c.wake /\ d.pending = c.pending /\ d.cut = c.cut
            /\ conn' = [conn EXCEPT ![p] = d]
        BY <1>1, <4>1 DEF FeedConns, Feed!At
      <4> HIDE DEF m, d, c
      <4> QED
        BY <4>1, <4>2, <4>3
    <3>2. CASE Feed!Write(p)
      <4> DEFINE rest == [type |-> "change", topics |-> {}, status |-> 0]
                 says == IF "status" \in c.note.topics THEN hub.status ELSE 0
                 m == [c.note EXCEPT !.status = says]
                 d == [c EXCEPT !.at = "wait", !.note = rest]
      <4>1. /\ c.at = "write" /\ conn' = [conn EXCEPT ![p].at = "wait", ![p].note = rest]
            /\ wire' = [wire EXCEPT ![p] = Append(wire[p], m)] /\ UNCHANGED <<truth, hub, page, missed>>
        BY <3>2 DEF Feed!Write, Feed!Sends, Feed!NoConn, Feed!Message
      <4>2. says \in Nat /\ ("status" \in c.note.topics => says = hub.status) /\ c.note \in FeedNotes /\ rest \in FeedNotes
        BY <1>1, <1>2 DEF FeedNotes, FeedConns, FeedHubs
      <4> HIDE DEF says, rest
      <4>3. m \in FeedNotes /\ m.type = "change" /\ m.topics = c.note.topics /\ m.status = says
        BY <1>3, <4>1, <4>2 DEF FeedNotes
      <4>4. /\ d \in FeedConns /\ d.at = "wait" /\ d.wake = c.wake /\ d.pending = c.pending /\ d.cut = c.cut
            /\ conn' = [conn EXCEPT ![p] = d]
        BY <1>1, <4>1, <4>2 DEF FeedConns, Feed!At
      <4> HIDE DEF m, d, c
      <4> QED
        BY <4>1, <4>2, <4>3, <4>4
    <3> QED
      BY <1>13, <3>1, <3>2
  <2> DEFINE w == Append(wire[p], m)
  <2>2. /\ w \in Seq(FeedNotes) /\ Len(wire[p]) + 1 \in DOMAIN w /\ w[Len(wire[p]) + 1] = m
        /\ DOMAIN w = 1 .. Len(wire[p]) + 1 /\ DOMAIN wire[p] = 1 .. Len(wire[p]) /\ Len(wire[p]) \in Nat
        /\ \A i \in DOMAIN wire[p] : i \in DOMAIN w /\ w[i] = wire[p][i]
    BY <1>1, <2>1, SentLast
  <2> HIDE DEF w
  <2>3. conn'[p] = d /\ wire'[p] = w /\ page'[p] = page[p] /\ missed'[p] = missed[p]
        /\ wire' = [wire EXCEPT ![p] = w]
    BY <1>1, <2>1 DEF w
  <2>4. Alone(p)
    BY <1>1, <2>1, <2>2, <2>3 DEF Alone, FeedTypes
  <2>5. Current(p)'
    <3>1. CASE c.at = "hello"
      BY <1>3, <2>1, <2>3, <3>1 DEF Current
    <3>2. CASE c.at = "write"
      <4>1. Told(p)' = Told(p) /\ \A n \in FeedNotes : Tells(p, n)' <=> Tells(p, n)
        BY <2>1, <2>3 DEF Told, Tells
      <4>2. m.type = "change" /\ m.topics = c.note.topics /\ ("status" \in m.topics => m.status = hub.status)
        BY <2>1, <3>2
      <4>3. ASSUME page[p].topic \in c.note.topics
            PROVE  OnItsWay(p)'
        <5>1. Tells(p, m)' /\ (page[p].topic = "status" => m.status >= Told(p))
          BY <1>2, <2>3, <4>2, <4>3 DEF Tells, Told, FeedHubs
        <5> QED
          BY <2>2, <2>3, <4>1, <5>1 DEF OnItsWay
      <4>4. ASSUME OnItsWay(p), page[p].topic \notin c.note.topics
            PROVE  OnItsWay(p)'
        BY <2>1, <2>2, <2>3, <4>1, <4>4 DEF OnItsWay, Tells
      <4>5. OnItsWay(p) => OnItsWay(p)'
        BY <4>3, <4>4
      <4> QED
        BY <1>1, <2>1, <2>3, <4>1, <4>5 DEF PageInv, Current, Reading
    <3> QED
      BY <2>1, <3>1, <3>2
  <2>6. Connected(p)'
    BY <1>3, <2>1, <2>3 DEF Connected, Feed!subs
  <2>7. NotNewer(p)'
    <3>1. page[p].topic = "status" /\ Tells(p, m) => m.status <= hub.status
      BY <1>2, <2>1 DEF Tells, FeedHubs
    <3>2. \A i \in DOMAIN w : (i \in DOMAIN wire[p] /\ w[i] = wire[p][i]) \/ w[i] = m
      BY <2>2
    <3> QED
      BY <1>1, <2>1, <2>3, <3>1, <3>2, ZenonT(60) DEF PageInv, NotNewer, Tells
  <2> QED
    BY <2>4, <2>5, <2>6, <2>7, PageStep DEF PageInv
<1> QED
  BY <1>5, <1>6, <1>7, <1>8, <1>9, <1>10, <1>11, <1>12, <1>13 DEF Feed!Connection

(* What the page does with its own state, and nothing it has heard.        *)
LEMMA ReadStep ==
  ASSUME FeedInv, NEW p \in OpenPages, NEW g \in FeedPages, page' = [page EXCEPT ![p] = g],
         NEW m \in {"nothing", "unsaved", "untold", "dropped", "overtaken"}, missed' = [missed EXCEPT ![p] = m],
         UNCHANGED <<truth, hub, conn, wire>>, g.topic = page[p].topic, g.live = page[p].live,
         g.shows <= truth[g.topic], g.reading = "answered" => g.got <= truth[g.topic],
         g.live /\ m = "nothing" =>
            \/ g.reading = "asked"
            \/ g.reading = "answered" /\ g.got >= Told(p)
            \/ g.error /\ g.reading = "no"
            \/ missed[p] = "nothing" /\ g.shows >= page[p].shows
                 /\ (page[p].reading = "answered" => g.shows >= page[p].got)
                 /\ page[p].reading # "asked" /\ ~(page[p].reading = "answered" /\ page[p].again)
                 /\ ~(page[p].error /\ page[p].reading = "no")
  PROVE  FeedInv'
<1>1. /\ FeedTypes /\ PageInv(p) /\ page[p] \in FeedPages /\ conn'[p] = conn[p] /\ wire'[p] = wire[p]
      /\ page'[p] = g /\ missed'[p] = m /\ Told(p)' = Told(p)
  BY DEF FeedInv, FeedTypes, Told
<1>2. Told(p) \in Nat
  BY <1>1 DEF Told, FeedTypes, FeedPages, FeedHubs
<1>3. Alone(p)
  BY <1>1 DEF Alone, FeedTypes
<1>4. ASSUME OnItsWay(p)
      PROVE  OnItsWay(p)'
  BY <1>1, <1>4 DEF OnItsWay, Tells
<1>5. Current(p)'
  BY <1>1, <1>2, <1>4 DEF PageInv, Current, Reading, FeedPages
<1>6. Connected(p)'
  BY <1>1 DEF PageInv, Connected, Feed!subs
<1>7. NotNewer(p)'
  BY <1>1 DEF PageInv, NotNewer, Tells
<1> QED
  BY <1>3, <1>5, <1>6, <1>7, PageStep DEF PageInv

(* What is left on its way when the first message has been heard.          *)
LEMMA HeardStep ==
  ASSUME FeedInv, NEW p \in OpenPages, Feed!Heard(p), UNCHANGED <<truth, hub, conn>>,
         NEW g \in FeedPages, page' = [page EXCEPT ![p] = g], g.topic = page[p].topic,
         NEW m \in {"nothing", "unsaved", "untold", "dropped", "overtaken"}, missed' = [missed EXCEPT ![p] = m],
         Len(wire[p]) = 1 /\ Head(wire[p]).type = "closed" => ~g.live,
         g.got = page[p].got, g.reading = "answered" => page[p].reading = "answered",
         g.shows <= truth[g.topic],
         Current(p)'
  PROVE  FeedInv'
<1> DEFINE v == Tail(wire[p])
<1>1. /\ FeedTypes /\ PageInv(p) /\ wire[p] \in Seq(FeedNotes) /\ wire[p] # <<>>
      /\ wire' = [wire EXCEPT ![p] = v]
  BY DEF FeedInv, FeedTypes, Feed!Heard
<1>2. /\ v \in Seq(FeedNotes) /\ DOMAIN wire[p] = 1 .. Len(wire[p]) /\ DOMAIN v = 1 .. Len(wire[p]) - 1
      /\ Len(wire[p]) \in Nat \ {0} /\ Len(v) = Len(wire[p]) - 1 /\ Head(wire[p]) = wire[p][1]
      /\ \A i \in DOMAIN v : i + 1 \in DOMAIN wire[p] /\ v[i] = wire[p][i + 1]
      /\ Len(wire[p]) > 1 => v # <<>>
  BY <1>1, HeardFirst
<1> HIDE DEF v
<1>3. conn'[p] = conn[p] /\ wire'[p] = v /\ page'[p] = g /\ missed'[p] = m
  BY <1>1 DEF FeedTypes
<1>4. Alone(p)
  BY <1>1, <1>2 DEF Alone, FeedTypes
<1>5. Connected(p)'
  <2>1. ASSUME conn[p].at = "none"
        PROVE  IF v = <<>> THEN ~g.live ELSE v[Len(v)].type = "closed"
    <3>1. wire[p][Len(wire[p])].type = "closed"
      BY <1>1, <2>1 DEF PageInv, Connected
    <3>2. CASE Len(wire[p]) = 1
      <4>1. ~g.live /\ Len(v) = 0
        BY <1>2, <3>1, <3>2
      <4>2. v = <<>>
        BY <1>2, <4>1
      <4> QED
        BY <4>1, <4>2
    <3>3. CASE Len(wire[p]) # 1
      <4>1. v # <<>> /\ Len(v) \in DOMAIN v /\ Len(v) + 1 = Len(wire[p])
        <5>1. Len(wire[p]) > 1
          <6>1. \A n \in Nat \ {0} : n # 1 => n > 1
            OBVIOUS
          <6> QED
            BY <1>2, <3>3, <6>1
        <5>2. Len(wire[p]) - 1 \in 1 .. Len(wire[p]) - 1
          BY <1>2, <5>1
        <5> QED
          BY <1>2, <5>1, <5>2
      <4> QED
        BY <1>2, <3>1, <4>1
    <3> QED
      BY <3>2, <3>3
  <2> QED
    BY <1>1, <1>3, <2>1 DEF PageInv, Connected, Feed!subs
<1>6. NotNewer(p)'
  <2>1. \A n : Tells(p, n)' <=> Tells(p, n)
    BY <1>3 DEF Tells
  <2>2. g.topic = "status" => \A i \in DOMAIN v : Tells(p, v[i]) => v[i].status <= hub.status
    BY <1>1, <1>2 DEF PageInv, NotNewer
  <2>3. g.reading = "answered" => g.got <= truth[g.topic]
    BY <1>1 DEF PageInv, NotNewer
  <2> QED
    BY <1>3, <2>1, <2>2, <2>3 DEF NotNewer
<1> QED
  BY <1>4, <1>5, <1>6, PageStep DEF PageInv

(* The page asks, or will ask again (app.js, refresh).                     *)
LEMMA Refreshed ==
  ASSUME NEW g \in FeedPages
  PROVE  LET k == Feed!refresh(g)
         IN  /\ k \in FeedPages /\ k.topic = g.topic /\ k.live = g.live /\ k.got = g.got
             /\ k.shows = g.shows /\ k.error = g.error
             /\ \/ k.reading = "asked"
                \/ k.reading = "answered" /\ g.reading = "answered" /\ k.again
<1>1. CASE g.reading = "no"
  BY <1>1 DEF Feed!refresh, FeedPages
<1>2. CASE g.reading # "no"
  BY <1>2 DEF Feed!refresh, FeedPages
<1> QED
  BY <1>1, <1>2

LEMMA WentOn ==
  ASSUME NEW g \in FeedPages
  PROVE  LET k == Feed!Goon(g)
         IN  /\ k \in FeedPages /\ k.topic = g.topic /\ k.live = g.live
             /\ k.shows = g.shows /\ k.error = g.error
             /\ k.reading = IF g.again THEN "asked" ELSE "no"
<1>1. CASE g.again
  BY <1>1 DEF Feed!Goon, FeedPages
<1>2. CASE ~g.again
  BY <1>2 DEF Feed!Goon, FeedPages
<1> QED
  BY <1>1, <1>2

(* What the page asks, and what it hears.                                  *)
LEMMA ReadsKept ==
  ASSUME FeedInv, NEW p \in OpenPages,
         Feed!Answer(p) \/ Feed!Arrive(p) \/ Feed!ReadFails(p) \/ Feed!FallBack(p)
  PROVE  FeedInv'
<1>1. /\ FeedTypes /\ PageInv(p) /\ page[p] \in FeedPages /\ page[p].topic \in Topics
      /\ page \in [OpenPages -> FeedPages]
      /\ missed \in [OpenPages -> {"nothing", "unsaved", "untold", "dropped", "overtaken"}]
      /\ missed[p] \in {"nothing", "unsaved", "untold", "dropped", "overtaken"}
      /\ truth[page[p].topic] \in Nat /\ page[p].shows \in Nat /\ page[p].got \in Nat
      /\ hub.status <= truth["status"] /\ hub.status \in Nat
  BY DEF FeedInv, FeedTypes, FeedPages, FeedHubs
<1>2. /\ page[p].shows <= truth[page[p].topic]
      /\ page[p].reading = "answered" => page[p].got <= truth[page[p].topic]
  BY <1>1 DEF PageInv, NotNewer
<1>3. truth[page[p].topic] >= Told(p) /\ Told(p) \in Nat
  BY <1>1 DEF Told
<1>4. ASSUME Feed!Answer(p)
      PROVE  FeedInv'
  <2> DEFINE now == truth[page[p].topic]
             g == [page[p] EXCEPT !.reading = "answered", !.got = now]
  <2>1. /\ page' = [page EXCEPT ![p].reading = "answered", ![p].got = now]
        /\ missed' = [missed EXCEPT ![p] = "nothing"] /\ UNCHANGED <<truth, hub, conn, wire>>
    BY <1>4 DEF Feed!Answer
  <2>2. /\ g \in FeedPages /\ g.topic = page[p].topic /\ g.live = page[p].live /\ g.shows = page[p].shows
        /\ g.reading = "answered" /\ g.got = truth[page[p].topic] /\ page' = [page EXCEPT ![p] = g]
    BY <1>1, <2>1 DEF FeedPages
  <2> HIDE DEF g, now
  <2>3. g.shows <= truth[g.topic] /\ g.got <= truth[g.topic] /\ g.got >= Told(p)
    BY <1>1, <1>2, <1>3, <2>2
  <2> QED
    BY <2>1, <2>2, <2>3, ReadStep
<1>5. ASSUME Feed!Arrive(p)
      PROVE  FeedInv'
  <2> DEFINE h == [page[p] EXCEPT !.shows = page[p].got, !.error = FALSE]
             g == Feed!Goon(h)
             m == IF page[p].got < page[p].shows THEN "overtaken" ELSE missed[p]
  <2>1. /\ page' = [page EXCEPT ![p] = g] /\ page[p].reading = "answered"
        /\ missed' = [missed EXCEPT ![p] = m] /\ UNCHANGED <<truth, hub, conn, wire>>
    BY <1>5 DEF Feed!Arrive
  <2>2. h \in FeedPages /\ h.topic = page[p].topic /\ h.live = page[p].live /\ h.shows = page[p].got
        /\ h.again = page[p].again
    BY <1>1 DEF FeedPages
  <2> HIDE DEF h
  <2>3. /\ g \in FeedPages /\ g.topic = page[p].topic /\ g.live = page[p].live /\ g.shows = page[p].got
        /\ g.reading = IF page[p].again THEN "asked" ELSE "no"
    BY <2>2, WentOn
  <2>4. m \in {"nothing", "unsaved", "untold", "dropped", "overtaken"}
        /\ (m = "nothing" => missed[p] = "nothing" /\ page[p].got >= page[p].shows)
    BY <1>1
  <2> HIDE DEF g, m
  <2>5. g.live /\ m = "nothing" =>
          \/ g.reading = "asked"
          \/ missed[p] = "nothing" /\ g.shows >= page[p].shows
                 /\ (page[p].reading = "answered" => g.shows >= page[p].got)
                 /\ page[p].reading # "asked" /\ ~(page[p].reading = "answered" /\ page[p].again)
                 /\ ~(page[p].error /\ page[p].reading = "no")
    BY <1>1, <2>1, <2>3, <2>4
  <2>6. g.shows <= truth[g.topic] /\ g.reading # "answered"
    BY <1>2, <2>1, <2>3
  <2> QED
    BY <2>1, <2>3, <2>4, <2>5, <2>6, ReadStep
<1>6. ASSUME Feed!ReadFails(p)
      PROVE  FeedInv'
  <2> DEFINE h == [page[p] EXCEPT !.error = TRUE]
             g == Feed!Goon(h)
  <2>1. page' = [page EXCEPT ![p] = g] /\ UNCHANGED <<truth, hub, conn, wire, missed>>
    BY <1>6 DEF Feed!ReadFails
  <2>2. h \in FeedPages /\ h.topic = page[p].topic /\ h.live = page[p].live /\ h.shows = page[p].shows /\ h.error
    BY <1>1 DEF FeedPages
  <2> HIDE DEF h
  <2>3. /\ g \in FeedPages /\ g.topic = page[p].topic /\ g.live = page[p].live /\ g.shows = page[p].shows
        /\ g.error /\ g.reading \in {"asked", "no"}
    BY <2>2, WentOn
  <2> HIDE DEF g
  <2>4. missed' = [missed EXCEPT ![p] = missed[p]]
    BY <1>1, <2>1
  <2> QED
    BY <1>1, <1>2, <2>1, <2>3, <2>4, ReadStep
<1>7. ASSUME Feed!FallBack(p)
      PROVE  FeedInv'
  <2> DEFINE g == Feed!refresh(page[p])
  <2>1. page' = [page EXCEPT ![p] = g] /\ UNCHANGED <<truth, hub, conn, wire, missed>> /\ ~page[p].live
    BY <1>7 DEF Feed!FallBack
  <2>2. /\ g \in FeedPages /\ g.topic = page[p].topic /\ ~g.live /\ g.live = page[p].live /\ g.shows = page[p].shows
        /\ g.got = page[p].got /\ (g.reading = "answered" => page[p].reading = "answered")
    BY <1>1, <2>1, Refreshed
  <2> HIDE DEF g
  <2>3. missed' = [missed EXCEPT ![p] = missed[p]]
    BY <1>1, <2>1
  <2> QED
    BY <1>1, <1>2, <2>1, <2>2, <2>3, ReadStep
<1> QED
  BY <1>4, <1>5, <1>6, <1>7

LEMMA HearsKept ==
  ASSUME FeedInv, NEW p \in OpenPages, Feed!HearHello(p) \/ Feed!HearClosed(p) \/ Feed!HearChange(p)
  PROVE  FeedInv'
<1> DEFINE n == Head(wire[p])
           v == Tail(wire[p])
           Fate == {"nothing", "unsaved", "untold", "dropped", "overtaken"}
<1>1. /\ FeedTypes /\ PageInv(p) /\ page[p] \in FeedPages /\ page[p].topic \in Topics
      /\ page \in [OpenPages -> FeedPages] /\ missed \in [OpenPages -> Fate] /\ missed[p] \in Fate
      /\ truth[page[p].topic] \in Nat /\ page[p].shows \in Nat
      /\ hub.status <= truth["status"] /\ hub.status \in Nat
      /\ wire[p] \in Seq(FeedNotes) /\ wire \in [OpenPages -> Seq(FeedNotes)]
  BY DEF FeedInv, FeedTypes, FeedPages, FeedHubs
<1>2. /\ Feed!Heard(p) /\ wire[p] # <<>> /\ wire' = [wire EXCEPT ![p] = v] /\ UNCHANGED <<truth, hub, conn>>
  BY DEF Feed!HearHello, Feed!HearClosed, Feed!HearChange, Feed!Heard
<1>3. /\ DOMAIN wire[p] = 1 .. Len(wire[p]) /\ n = wire[p][1] /\ n \in FeedNotes /\ 1 \in DOMAIN wire[p]
      /\ \A i \in DOMAIN wire[p] : i # 1 => i - 1 \in DOMAIN v /\ v[i - 1] = wire[p][i]
  BY <1>1, <1>2, HeardFirst
<1>4. page[p].shows <= truth[page[p].topic] /\ wire'[p] = v /\ conn'[p] = conn[p]
  BY <1>1, <1>2 DEF PageInv, NotNewer
<1> HIDE DEF v, n
<1>5. ASSUME Feed!HearHello(p)
      PROVE  FeedInv'
  <2> DEFINE h == [page[p] EXCEPT !.live = TRUE]
             g == Feed!refresh(h)
  <2>1. page' = [page EXCEPT ![p] = g] /\ n.type = "hello" /\ missed' = [missed EXCEPT ![p] = missed[p]]
    BY <1>1, <1>5 DEF Feed!HearHello, n
  <2>2. h \in FeedPages /\ h.topic = page[p].topic /\ h.got = page[p].got /\ h.shows = page[p].shows
        /\ h.reading = page[p].reading
    BY <1>1 DEF FeedPages
  <2> HIDE DEF h
  <2>3. /\ g \in FeedPages /\ g.topic = page[p].topic /\ g.got = page[p].got /\ g.shows = page[p].shows
        /\ \/ g.reading = "asked"
           \/ g.reading = "answered" /\ page[p].reading = "answered" /\ g.again
    BY <2>2, Refreshed
  <2> HIDE DEF g
  <2>4. page'[p] = g
    BY <1>1, <2>1
  <2>5. Current(p)'
    BY <2>3, <2>4 DEF Current, Reading
  <2> QED
    BY <1>1, <1>2, <1>4, <2>1, <2>3, <2>5, HeardStep DEF n
<1>6. ASSUME Feed!HearClosed(p)
      PROVE  FeedInv'
  <2> DEFINE g == [page[p] EXCEPT !.live = FALSE]
  <2>1. page' = [page EXCEPT ![p] = g] /\ missed' = [missed EXCEPT ![p] = missed[p]]
    BY <1>1, <1>6 DEF Feed!HearClosed
  <2>2. /\ g \in FeedPages /\ g.topic = page[p].topic /\ g.got = page[p].got /\ g.shows = page[p].shows
        /\ g.reading = page[p].reading /\ ~g.live
    BY <1>1 DEF FeedPages
  <2> HIDE DEF g
  <2>3. Current(p)'
    BY <1>1, <2>1, <2>2 DEF Current
  <2> QED
    BY <1>1, <1>2, <1>4, <2>1, <2>2, <2>3, HeardStep
<1>7. ASSUME Feed!HearChange(p)
      PROVE  FeedInv'
  <2>1. n.type = "change"
    BY <1>7 DEF Feed!HearChange, n
  <2>2. CASE page[p].topic \notin n.topics
    <3>1. page' = page /\ missed' = missed
      BY <1>7, <2>2 DEF Feed!HearChange, n
    <3>2. page' = [page EXCEPT ![p] = page[p]] /\ missed' = [missed EXCEPT ![p] = missed[p]]
      BY <1>1, <3>1
    <3>3. OnItsWay(p) => OnItsWay(p)'
      BY <1>2, <1>3, <1>4, <2>1, <2>2, <3>1 DEF OnItsWay, Tells, Told
    <3>4. Current(p)'
      BY <1>1, <1>2, <3>1, <3>3 DEF PageInv, Current, Reading, Told
    <3> QED
      BY <1>1, <1>2, <1>4, <2>1, <3>2, <3>4, HeardStep DEF n
  <2>3. CASE page[p].topic \in n.topics /\ page[p].topic = "status"
    <3> DEFINE g == [page[p] EXCEPT !.shows = n.status]
               m == IF n.status < page[p].shows THEN "overtaken"
                    ELSE IF n.status = hub.status THEN "nothing" ELSE missed[p]
    <3>1. page' = [page EXCEPT ![p].shows = n.status] /\ missed' = [missed EXCEPT ![p] = m]
      BY <1>7, <2>3 DEF Feed!HearChange, n
    <3>2. n.status \in Nat /\ n.status <= hub.status
      BY <1>1, <1>3, <2>1, <2>3 DEF PageInv, NotNewer, Tells, FeedNotes
    <3>3. /\ g \in FeedPages /\ g.topic = page[p].topic /\ g.got = page[p].got /\ g.shows = n.status
          /\ g.reading = page[p].reading /\ g.live = page[p].live /\ g.again = page[p].again /\ g.error = page[p].error
          /\ page' = [page EXCEPT ![p] = g]
      BY <1>1, <3>1, <3>2 DEF FeedPages
    <3>4. /\ m \in Fate
          /\ m = "nothing" => \/ n.status = hub.status
                              \/ n.status >= page[p].shows /\ missed[p] = "nothing"
      BY <1>1, <3>2
    <3> HIDE DEF g, m
    <3>5. page'[p] = g /\ missed'[p] = m /\ Told(p) = hub.status /\ Told(p)' = hub.status
      BY <1>1, <1>2, <2>3, <3>1, <3>3 DEF Told
    <3>6. n.status < hub.status /\ OnItsWay(p) => OnItsWay(p)'
      <4> SUFFICES ASSUME n.status < hub.status, OnItsWay(p) PROVE OnItsWay(p)'
        OBVIOUS
      <4>1. \A k : Tells(p, k)' <=> Tells(p, k)
        BY <3>3, <3>5 DEF Tells
      <4>2. ASSUME NEW i \in DOMAIN wire[p], wire[p][i].type # "change"
                     \/ (Tells(p, wire[p][i]) /\ (page[p].topic = "status" => wire[p][i].status >= Told(p)))
            PROVE  i - 1 \in DOMAIN v /\ v[i - 1] = wire[p][i]
        <5>1. i # 1
          BY <1>1, <1>3, <2>1, <2>3, <3>2, <3>5, <4>2
        <5> QED
          BY <1>3, <5>1
      <4>3. page'[p].topic = page[p].topic /\ Told(p)' = Told(p) /\ conn'[p] = conn[p] /\ wire'[p] = v
        BY <1>4, <3>3, <3>5
      <4> QED
        BY <4>1, <4>2, <4>3 DEF OnItsWay
    <3>7. Current(p)'
      BY <1>1, <1>2, <2>3, <3>2, <3>3, <3>4, <3>5, <3>6 DEF PageInv, Current, Reading
    <3>8. g.shows <= truth[g.topic]
      BY <1>1, <2>3, <3>2, <3>3, FeedInv DEF FeedInv, FeedTypes
    <3> QED
      BY <1>1, <1>2, <1>4, <2>1, <3>1, <3>3, <3>4, <3>7, <3>8, HeardStep DEF n
  <2>4. CASE page[p].topic \in n.topics /\ page[p].topic # "status"
    <3> DEFINE g == Feed!refresh(page[p])
    <3>1. page' = [page EXCEPT ![p] = g] /\ missed' = [missed EXCEPT ![p] = missed[p]]
      BY <1>1, <1>7, <2>4 DEF Feed!HearChange, n
    <3>2. /\ g \in FeedPages /\ g.topic = page[p].topic /\ g.got = page[p].got /\ g.shows = page[p].shows
          /\ \/ g.reading = "asked"
             \/ g.reading = "answered" /\ page[p].reading = "answered" /\ g.again
      BY <1>1, Refreshed
    <3> HIDE DEF g
    <3>3. page'[p] = g
      BY <1>1, <3>1
    <3>4. Current(p)'
      BY <3>2, <3>3 DEF Current, Reading
    <3> QED
      BY <1>1, <1>2, <1>4, <2>1, <3>1, <3>2, <3>4, HeardStep DEF n
  <2> QED
    BY <2>2, <2>3, <2>4
<1> QED
  BY <1>5, <1>6, <1>7

LEMMA FeedKept ==
  ASSUME FeedAssumed
  PROVE  FeedInv /\ [Feed!Next]_Feed!feedVars => FeedInv'
<1> SUFFICES ASSUME FeedInv, [Feed!Next]_Feed!feedVars
             PROVE  FeedInv'
  OBVIOUS
<1>1. CASE UNCHANGED Feed!feedVars
  BY <1>1 DEF Feed!feedVars, FeedInv, FeedTypes, PageInv, Current, Connected, NotNewer, OnItsWay, Reading, Tells, Told,
              Feed!subs
<1>2. CASE \E p \in OpenPages : Feed!Connection(p) \/ Feed!PageSteps(p)
  BY <1>2, ConnectionKept, ReadsKept, HearsKept DEF Feed!PageSteps
<1>3. CASE ~\E p \in OpenPages : Feed!Connection(p) \/ Feed!PageSteps(p)
  BY <1>1, <1>3, DaemonKept DEF Feed!Next
<1> QED
  BY <1>2, <1>3

LEMMA FeedBegins == ASSUME FeedAssumed PROVE Feed!Init => FeedInv
<1> SUFFICES ASSUME Feed!Init
             PROVE  FeedInv
  OBVIOUS
<1> DEFINE note == [type |-> "change", topics |-> {}, status |-> 0]
           c == [at |-> "none", pending |-> {}, wake |-> FALSE, note |-> note, cut |-> FALSE]
<1>1. PICK of \in [OpenPages -> Topics] :
        page = [p \in OpenPages |-> [topic |-> of[p], live |-> FALSE, reading |-> "no", got |-> 0,
                                     again |-> FALSE, shows |-> 0, error |-> FALSE]]
  BY DEF Feed!Init
<1>2. /\ truth = [t \in Topics |-> 1] /\ wire = [p \in OpenPages |-> <<>>]
      /\ hub = [status |-> 0, reader |-> "rest", wake |-> FALSE, closed |-> FALSE, due |-> 0]
      /\ conn = [p \in OpenPages |-> c] /\ missed = [p \in OpenPages |-> "nothing"]
  BY DEF Feed!Init, Feed!NoConn, Feed!Message
<1>3. c \in FeedConns /\ c.at = "none" /\ c.pending = {}
  <2>1. note \in FeedNotes
    BY DEF FeedNotes
  <2> QED
    BY <2>1 DEF FeedConns, Feed!At
<1> HIDE DEF c
<1>4. FeedTypes
  <2>1. page \in [OpenPages -> FeedPages]
    BY <1>1 DEF FeedPages
  <2>2. wire \in [OpenPages -> Seq(FeedNotes)]
    BY <1>2
  <2> QED
    BY <1>2, <1>3, <2>1, <2>2 DEF FeedTypes, FeedHubs
<1>5. ASSUME NEW p \in OpenPages
      PROVE  PageInv(p)
  <2>1. /\ conn[p] = c /\ wire[p] = <<>> /\ ~page[p].live /\ page[p].reading = "no" /\ page[p].shows = 0
        /\ page[p].topic \in Topics /\ ~hub.closed /\ truth[page[p].topic] = 1
    BY <1>1, <1>2
  <2>2. Current(p) /\ Connected(p)
    BY <1>3, <2>1 DEF Current, Connected
  <2>3. NotNewer(p)
    BY <2>1 DEF NotNewer
  <2> QED
    BY <2>2, <2>3 DEF PageInv
<1> QED
  BY <1>2, <1>4, <1>5 DEF FeedInv, FeedAssumed

LEMMA FeedPromises == FeedInv => LiveIsCurrent /\ StopEndsAll
<1> SUFFICES ASSUME FeedInv
             PROVE  LiveIsCurrent /\ StopEndsAll
  OBVIOUS
<1>1. ASSUME NEW p \in OpenPages, page[p].live, Feed!Settled(p), ~page[p].error, missed[p] = "nothing"
      PROVE  CASE page[p].topic = "status" -> hub.reader = "publish" \/ page[p].shows >= hub.status
               [] page[p].topic = "plans" -> hub.due > 0 \/ page[p].shows = truth["plans"]
               [] OTHER -> page[p].shows = truth[page[p].topic]
  <2>1. /\ PageInv(p) /\ page[p].shows \in Nat /\ page[p].topic \in Topics
        /\ truth[page[p].topic] \in Nat /\ wire[p] = <<>>
    BY <1>1 DEF FeedInv, FeedTypes, FeedPages, Feed!Settled
  <2>2. ~OnItsWay(p)
    <3>1. conn[p].pending = {} /\ conn[p].at = "wait"
      BY <1>1, <2>1 DEF PageInv, Connected, Feed!Settled
    <3> QED
      BY <2>1, <3>1 DEF OnItsWay
  <2>3. ~Reading(p)
    BY <1>1 DEF Reading, Feed!Settled
  <2>4. \/ page[p].topic = "status" /\ hub.reader = "publish"
        \/ page[p].topic = "plans" /\ hub.due > 0
        \/ page[p].shows >= Told(p)
    BY <1>1, <2>1, <2>2, <2>3 DEF PageInv, Current
  <2>5. page[p].shows <= truth[page[p].topic]
    BY <2>1 DEF PageInv, NotNewer
  <2> QED
    BY <2>1, <2>4, <2>5 DEF Told
<1>2. ASSUME NEW p \in Feed!subs, hub.closed
      PROVE  conn[p].cut
  <2>1. p \in OpenPages /\ PageInv(p)
    BY <1>2 DEF FeedInv, Feed!subs
  <2> QED
    BY <1>2, <2>1 DEF PageInv, Connected
<1> QED
  BY <1>1, <1>2 DEF LiveIsCurrent, Feed!LiveIsCurrent, StopEndsAll, Feed!StopEndsAll

(* A live page with nothing on its way to it shows what there is, whatever *)
(* crosses: changes, notes, reads and the beginning of its connection      *)
(* (events.go and app.js, connectEvents), with any number of pages,        *)
(* connections and changes.                                                *)
THEOREM LiveAlwaysCurrent == ASSUME FeedAssumed PROVE Feed!Spec => []LiveIsCurrent
<1>1. Feed!Init => FeedInv
  BY FeedBegins
<1>2. FeedInv /\ [Feed!Next]_Feed!feedVars => FeedInv'
  BY FeedKept
<1>3. FeedInv => LiveIsCurrent
  BY FeedPromises
<1> QED
  BY <1>1, <1>2, <1>3, PTL DEF Feed!Spec

(* No connection that has joined, or is joining, outlives the daemon's     *)
(* stop (events.go, join and closeAll).                                    *)
THEOREM StopAlwaysEndsAll == ASSUME FeedAssumed PROVE Feed!Spec => []StopEndsAll
<1>1. Feed!Init => FeedInv
  BY FeedBegins
<1>2. FeedInv /\ [Feed!Next]_Feed!feedVars => FeedInv'
  BY FeedKept
<1>3. FeedInv => StopEndsAll
  BY FeedPromises
<1> QED
  BY <1>1, <1>2, <1>3, PTL DEF Feed!Spec
=============================================================================
