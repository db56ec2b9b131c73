----------------------------- MODULE AccessProofs -----------------------------
(***************************************************************************)
(* Proofs about the ways into the platform, the vetting of hosts, the      *)
(* checks before a launch and the router, for any requests, users, levels  *)
(* and any value of the bounds: each component on its own, then the scenes *)
(* of MCAccess.                                                            *)
(***************************************************************************)
EXTENDS MCAccess, SumLemmas, SequenceTheorems, TLAPS

-----------------------------------------------------------------------------
(* AuthTokens *)

\* The requests that rotate a token.
Rotating(t) == {w \in AuthWorkers : req[w].op = "rotate" /\ req[w].token = t}

\* A request works on a token that is there; the rotations of a token, those that
\* were committed with those under way, are no more than the requests at a time.
RotationInv ==
    /\ Len(tokens) <= MaxTokens
    /\ \A w \in AuthWorkers :
          req[w].op \in {"rotate", "revoking"} => req[w].token \in 1..Len(tokens)
    /\ \A t \in 1..Len(tokens) :
          /\ tokens[t].parent < t
          /\ IsFiniteSet(Children(t))
          /\ Cardinality(Children(t)) + Cardinality(Rotating(t)) <= Cardinality(AuthWorkers)

AuthInv == AuthTypeOK /\ UsedMeansReplaced /\ RotationInv

LEMMA RotatingIsFinite ==
    ASSUME NEW t
    PROVE  /\ IsFiniteSet(Rotating(t)) /\ Cardinality(Rotating(t)) \in Nat
           /\ IsFiniteSet(Rotating(t)') /\ Cardinality(Rotating(t)') \in Nat
           /\ Cardinality(Rotating(t)') <= Cardinality(AuthWorkers)
           /\ Cardinality(AuthWorkers) \in Nat
  <1>1. Rotating(t) \in SUBSET AuthWorkers /\ Rotating(t)' \in SUBSET AuthWorkers
        BY DEF Rotating
  <1>2. IsFiniteSet(AuthWorkers)
        BY AuthAssumption DEF AuthAssumption
  <1>3. /\ IsFiniteSet(Rotating(t)) /\ IsFiniteSet(Rotating(t)')
        /\ Cardinality(Rotating(t)') <= Cardinality(AuthWorkers)
        BY <1>1, <1>2, FS_Subset
  <1>. QED BY <1>2, <1>3, FS_CardinalityType

LEMMA AuthInitially == AuthInit => AuthInv
  <1>. SUFFICES ASSUME AuthInit PROVE AuthInv
       OBVIOUS
  <1>1. NoReq \in Req
        BY AuthAssumption DEF NoReq, Req, AuthAssumption
  <1>2. AuthTypeOK
    <2>1. clock \in 0..MaxTokens
          BY AuthAssumption DEF AuthInit, AuthAssumption
    <2>2. announced \in BOOLEAN
          BY DEF AuthInit
    <2>. QED BY <1>1, <2>1, <2>2 DEF AuthInit, AuthTypeOK
  <1>3. 1..Len(tokens) = {} /\ Len(tokens) <= MaxTokens
        BY AuthAssumption DEF AuthInit, AuthAssumption
  <1>4. \A w \in AuthWorkers : req[w].op = "none"
        BY DEF AuthInit, NoReq
  <1>. QED BY <1>2, <1>3, <1>4 DEF AuthInv, UsedMeansReplaced, RotationInv

LEMMA TokenType == ASSUME AuthTypeOK, NEW t \in 1..Len(tokens)
                   PROVE  /\ tokens[t] \in Token /\ tokens[t].parent \in Nat
                          /\ tokens[t].used \in BOOLEAN /\ tokens[t].family \in 1..MaxTokens
  <1>1. tokens[t] \in Token
        BY DEF AuthTypeOK
  <1>2. tokens[t].used \in BOOLEAN
        BY <1>1 DEF Token
  <1>. QED BY <1>1, <1>2, AuthAssumption DEF Token, AuthAssumption

\* A step that leaves the tokens and takes on no rotation.
LEMMA RequestEnds ==
    ASSUME AuthInv, NEW w \in AuthWorkers, NEW r \in Req, r.op \notin {"rotate", "revoking"},
           req' = [req EXCEPT ![w] = r], tokens' = tokens
    PROVE  UsedMeansReplaced' /\ RotationInv' /\ req' \in [AuthWorkers -> Req]
  <1>1. /\ req' \in [AuthWorkers -> Req] /\ req'[w] = r
        /\ \A v \in AuthWorkers : v # w => req'[v] = req[v]
        BY DEF AuthInv, AuthTypeOK
  <1>2. UsedMeansReplaced'
        BY DEF AuthInv, UsedMeansReplaced, Children
  <1>3. ASSUME NEW t \in 1..Len(tokens)
        PROVE  /\ tokens'[t].parent < t
               /\ IsFiniteSet(Children(t)')
               /\ Cardinality(Children(t)') + Cardinality(Rotating(t)') <= Cardinality(AuthWorkers)
    <2>1. Rotating(t)' \subseteq Rotating(t) /\ Children(t)' = Children(t)
          BY <1>1 DEF Rotating, Children
    <2>2. Cardinality(Rotating(t)') <= Cardinality(Rotating(t))
          BY <2>1, RotatingIsFinite, FS_Subset
    <2>3. /\ tokens'[t].parent < t
          /\ IsFiniteSet(Children(t)) /\ Cardinality(Children(t)) \in Nat
          /\ Cardinality(Children(t)) + Cardinality(Rotating(t)) <= Cardinality(AuthWorkers)
          BY FS_CardinalityType DEF AuthInv, RotationInv
    <2>. QED BY <2>1, <2>2, <2>3, RotatingIsFinite
  <1>4. \A v \in AuthWorkers :
           req'[v].op \in {"rotate", "revoking"} => req'[v].token \in 1..Len(tokens)
        BY <1>1 DEF AuthInv, RotationInv
  <1>5. Len(tokens') <= MaxTokens /\ tokens' = tokens
        BY DEF AuthInv, RotationInv
  <1>. QED BY <1>1, <1>2, <1>3, <1>4, <1>5 DEF RotationInv

\* What a new token, the parent's child if it has one, adds to the tokens.
LEMMA NewToken ==
    ASSUME AuthInv, Len(tokens) < MaxTokens, NEW p \in 0..Len(tokens), NEW k \in Token,
           k.parent = p,
           NEW ts \in Seq(Token), Len(ts) = Len(tokens),
           \A t \in 1..Len(tokens) : ts[t].parent = tokens[t].parent,
           tokens' = Append(ts, k), NEW n \in Nat, n = Len(tokens) + 1
    PROVE  /\ tokens' \in Seq(Token) /\ Len(tokens') = n /\ tokens'[n] = k
           /\ \A t \in 1..Len(tokens) : tokens'[t] = ts[t]
           /\ \A t \in 1..Len(tokens) :
                 Children(t)' = IF t = p THEN Children(t) \cup {n} ELSE Children(t)
           /\ Children(n)' = {}
  <1>0. Len(tokens) \in Nat
        BY DEF AuthInv, AuthTypeOK
  <1>1. /\ tokens' \in Seq(Token) /\ Len(tokens') = n /\ tokens'[n] = k
        /\ \A t \in 1..Len(tokens) : tokens'[t] = ts[t]
        BY <1>0
  <1>2. 1..n = (1..Len(tokens)) \cup {n} /\ n \notin 1..Len(tokens)
        BY <1>0
  <1>3. \A c \in 1..Len(tokens) : tokens'[c].parent = tokens[c].parent
        BY <1>1
  <1>4. \A c \in 1..Len(tokens) : tokens[c].parent # n
    <2>1. \A c \in 1..Len(tokens) : tokens[c].parent < c /\ tokens[c].parent \in Nat
          BY TokenType DEF AuthInv, RotationInv
    <2>. QED BY <1>0, <2>1
  <1>5. \A t \in 1..Len(tokens) :
           Children(t)' = IF t = p THEN Children(t) \cup {n} ELSE Children(t)
        BY <1>1, <1>2, <1>3 DEF Children
  <1>6. Children(n)' = {}
    <2>1. p # n
          BY <1>0
    <2>. QED BY <1>1, <1>2, <1>3, <1>4, <2>1 DEF Children
  <1>. QED BY <1>1, <1>5, <1>6

\* A login or a signup: a token of a new family has no parent.
LEMMA Issued ==
    ASSUME AuthInv, Len(tokens) < MaxTokens, tokens' = Issue,
           req' \in [AuthWorkers -> Req],
           \A v \in AuthWorkers : req'[v] = req[v] \/ req'[v] = NoReq
    PROVE  UsedMeansReplaced' /\ RotationInv' /\ tokens' \in Seq(Token)
  <1>. DEFINE k == [parent |-> 0, family |-> Len(tokens) + 1, used |-> FALSE, revoked |-> FALSE]
  <1>0. PICK n \in Nat : n = Len(tokens) + 1 /\ Len(tokens) \in Nat
        BY DEF AuthInv, AuthTypeOK
  <1>1. MaxTokens \in Nat /\ tokens \in Seq(Token)
        BY AuthAssumption DEF AuthInv, AuthTypeOK, AuthAssumption
  <1>2. k \in Token /\ k.parent = 0 /\ k.used = FALSE
    <2>1. n \in 1..MaxTokens /\ 0 \in 0..MaxTokens
          BY <1>0, <1>1
    <2>2. k = [parent |-> 0, family |-> n, used |-> FALSE, revoked |-> FALSE]
          BY <1>0
    <2>. QED BY <2>1, <2>2 DEF Token
  <1>3. tokens' = Append(tokens, k)
        BY DEF Issue
  <1>. HIDE DEF k
  <1>4. 0 \in 0..Len(tokens)
        BY <1>0
  <1>5. /\ tokens' \in Seq(Token) /\ Len(tokens') = n
        /\ \A t \in 1..Len(tokens) : tokens'[t] = tokens[t] /\ Children(t)' = Children(t)
        /\ tokens'[n] = k /\ Children(n)' = {}
    <2>1. \A t \in 1..Len(tokens) : t # 0
          BY <1>0
    <2>2. /\ tokens' \in Seq(Token) /\ Len(tokens') = n /\ tokens'[n] = k
          /\ \A t \in 1..Len(tokens) : tokens'[t] = tokens[t]
          /\ \A t \in 1..Len(tokens) :
                Children(t)' = IF t = 0 THEN Children(t) \cup {n} ELSE Children(t)
          /\ Children(n)' = {}
          BY <1>0, <1>1, <1>2, <1>3, <1>4, NewToken
    <2>. QED BY <2>1, <2>2
  <1>6. 1..Len(tokens') = (1..Len(tokens)) \cup {n} /\ n \notin 1..Len(tokens)
        BY <1>0, <1>5
  <1>7. UsedMeansReplaced'
    <2>1. ASSUME NEW t \in 1..Len(tokens)
          PROVE  /\ tokens'[t].used <=> Children(t)' # {}
                 /\ \A c \in Children(t)' : c > t /\ tokens'[c].family = tokens'[t].family
      <3>1. /\ tokens[t].used <=> Children(t) # {}
            /\ \A c \in Children(t) : c > t /\ tokens[c].family = tokens[t].family
            BY DEF AuthInv, UsedMeansReplaced
      <3>2. Children(t) \subseteq 1..Len(tokens)
            BY DEF Children
      <3>. QED BY <1>5, <3>1, <3>2
    <2>2. tokens'[n].used = FALSE /\ Children(n)' = {}
          BY <1>2, <1>5
    <2>. QED BY <1>6, <2>1, <2>2 DEF UsedMeansReplaced
  <1>8. \A t \in 1..Len(tokens') : Rotating(t)' \subseteq Rotating(t)
        BY DEF Rotating, NoReq
  <1>9. ASSUME NEW t \in 1..Len(tokens')
        PROVE  /\ tokens'[t].parent < t
               /\ IsFiniteSet(Children(t)')
               /\ Cardinality(Children(t)') + Cardinality(Rotating(t)') <= Cardinality(AuthWorkers)
    <2>1. CASE t \in 1..Len(tokens)
      <3>1. Cardinality(Rotating(t)') <= Cardinality(Rotating(t))
            BY <1>8, RotatingIsFinite, FS_Subset
      <3>2. /\ tokens[t].parent < t
            /\ IsFiniteSet(Children(t)) /\ Cardinality(Children(t)) \in Nat
            /\ Cardinality(Children(t)) + Cardinality(Rotating(t)) <= Cardinality(AuthWorkers)
            BY <2>1, FS_CardinalityType DEF AuthInv, RotationInv
      <3>. QED BY <1>5, <2>1, <3>1, <3>2, RotatingIsFinite
    <2>2. CASE t = n
      <3>1. IsFiniteSet(Children(t)') /\ Cardinality(Children(t)') = 0
            BY <1>5, <2>2, FS_EmptySet
      <3>2. tokens'[t].parent < t
            BY <1>0, <1>2, <1>5, <2>2
      <3>. QED BY <3>1, <3>2, RotatingIsFinite
    <2>. QED BY <1>6, <2>1, <2>2
  <1>10. \A v \in AuthWorkers :
            req'[v].op \in {"rotate", "revoking"} => req'[v].token \in 1..Len(tokens')
         BY <1>6 DEF AuthInv, RotationInv, NoReq
  <1>11. Len(tokens') <= MaxTokens
         BY <1>0, <1>1, <1>5
  <1>. QED BY <1>5, <1>7, <1>9, <1>10, <1>11 DEF RotationInv

\* A rotation that commits: the token is used and has one more child.
LEMMA Rotated ==
    ASSUME AuthInv, NEW w \in AuthWorkers, RotateCommits(w), account = "active"
    PROVE  UsedMeansReplaced' /\ RotationInv' /\ tokens' \in Seq(Token)
  <1>0. PICK n \in Nat : n = Len(tokens) + 1 /\ Len(tokens) \in Nat
        BY DEF AuthInv, AuthTypeOK
  <1>1. PICK p \in 1..Len(tokens) : p = req[w].token
        BY DEF RotateCommits, AuthInv, RotationInv
  <1>. DEFINE k == [parent |-> p, family |-> tokens[p].family, used |-> FALSE, revoked |-> FALSE]
              u == [tokens[p] EXCEPT !.used = TRUE]
              ts == [tokens EXCEPT ![p] = u]
  <1>2. /\ Len(tokens) < MaxTokens /\ tokens' = Append(ts, k) /\ req[w].op = "rotate"
        /\ req' = [req EXCEPT ![w] = NoReq]
        BY <1>1 DEF RotateCommits
  <1>3. MaxTokens \in Nat /\ tokens \in Seq(Token) /\ tokens[p] \in Token
        BY <1>1, AuthAssumption DEF AuthInv, AuthTypeOK, AuthAssumption
  <1>4. k \in Token /\ k.parent = p /\ k.used = FALSE /\ k.family = tokens[p].family
    <2>1. p \in 0..MaxTokens
          BY <1>0, <1>2, <1>3
    <2>2. tokens[p].family \in 1..MaxTokens
          BY <1>3 DEF Token
    <2>. QED BY <2>1, <2>2 DEF Token
  <1>5. /\ u \in Token /\ u.parent = tokens[p].parent /\ u.family = tokens[p].family
        BY <1>3 DEF Token
  <1>6. u.used
        BY <1>3 DEF Token
  <1>. HIDE DEF k, u
  <1>7. /\ ts \in Seq(Token) /\ Len(ts) = Len(tokens)
        /\ \A t \in 1..Len(tokens) : ts[t] = IF t = p THEN u ELSE tokens[t]
        BY <1>1, <1>3, <1>5, ExceptSeq
  <1>. HIDE DEF ts
  <1>8. p \in 0..Len(tokens) /\ \A t \in 1..Len(tokens) : ts[t].parent = tokens[t].parent
        BY <1>0, <1>5, <1>7
  <1>9. /\ tokens' \in Seq(Token) /\ Len(tokens') = n
        /\ \A t \in 1..Len(tokens) : tokens'[t] = ts[t]
        /\ tokens'[n] = k /\ Children(n)' = {}
        /\ \A t \in 1..Len(tokens) :
              Children(t)' = IF t = p THEN Children(t) \cup {n} ELSE Children(t)
    <2>1. /\ k \in Token /\ k.parent = p /\ p \in 0..Len(tokens) /\ Len(tokens) < MaxTokens
          /\ tokens' = Append(ts, k) /\ ts \in Seq(Token) /\ Len(ts) = Len(tokens)
          /\ \A t \in 1..Len(tokens) : ts[t].parent = tokens[t].parent
          BY <1>2, <1>4, <1>7, <1>8
    <2>. QED BY <1>0, <2>1, NewToken, SMTT(60)
  <1>10. 1..Len(tokens') = (1..Len(tokens)) \cup {n} /\ n \notin 1..Len(tokens)
         BY <1>0, <1>9
  <1>11. \A t \in 1..Len(tokens) : tokens'[t].family = tokens[t].family
         BY <1>5, <1>7, <1>9
  <1>12. UsedMeansReplaced'
    <2>1. ASSUME NEW t \in 1..Len(tokens)
          PROVE  /\ tokens'[t].used <=> Children(t)' # {}
                 /\ \A c \in Children(t)' : c > t /\ tokens'[c].family = tokens'[t].family
      <3>1. /\ tokens[t].used <=> Children(t) # {}
            /\ \A c \in Children(t) : c > t /\ tokens[c].family = tokens[t].family
            BY DEF AuthInv, UsedMeansReplaced
      <3>2. Children(t) \subseteq 1..Len(tokens)
            BY DEF Children
      <3>3. CASE t = p
        <4>1. tokens'[t].used /\ n \in Children(t)'
              BY <1>6, <1>7, <1>9, <3>3
        <4>2. n > t /\ tokens'[n].family = tokens'[t].family
              BY <1>0, <1>4, <1>9, <1>11, <3>3
        <4>3. \A c \in Children(t) : c > t /\ tokens'[c].family = tokens'[t].family
              BY <1>11, <3>1, <3>2
        <4>. QED BY <1>9, <3>3, <4>1, <4>2, <4>3
      <3>4. CASE t # p
        <4>1. tokens'[t] = tokens[t] /\ Children(t)' = Children(t)
              BY <1>7, <1>9, <3>4
        <4>. QED BY <1>11, <3>1, <3>2, <4>1
      <3>. QED BY <3>3, <3>4
    <2>2. tokens'[n].used = FALSE /\ Children(n)' = {}
          BY <1>4, <1>9
    <2>. QED BY <1>10, <2>1, <2>2 DEF UsedMeansReplaced
  <1>13. /\ \A v \in AuthWorkers : v # w => req'[v] = req[v]
         /\ req'[w].op = "none"
         BY <1>2 DEF AuthInv, AuthTypeOK, NoReq
  <1>14. /\ \A t : Rotating(t)' \subseteq Rotating(t)
         /\ Rotating(p)' = Rotating(p) \ {w} /\ w \in Rotating(p)
         BY <1>1, <1>2, <1>13 DEF Rotating
  <1>15. ASSUME NEW t \in 1..Len(tokens')
         PROVE  /\ tokens'[t].parent < t
                /\ IsFiniteSet(Children(t)')
                /\ Cardinality(Children(t)') + Cardinality(Rotating(t)') <= Cardinality(AuthWorkers)
    <2>0. ASSUME t \in 1..Len(tokens)
          PROVE  /\ tokens[t].parent < t /\ tokens'[t].parent = tokens[t].parent
                 /\ IsFiniteSet(Children(t)) /\ Cardinality(Children(t)) \in Nat
                 /\ Cardinality(Children(t)) + Cardinality(Rotating(t)) <= Cardinality(AuthWorkers)
          BY <1>8, <1>9, <2>0, FS_CardinalityType DEF AuthInv, RotationInv
    <2>1. CASE t = p
      <3>1. n \notin Children(p)
            BY <1>10 DEF Children
      <3>2. /\ IsFiniteSet(Children(t)')
            /\ Cardinality(Children(t)') = Cardinality(Children(t)) + 1
            BY <1>9, <2>0, <2>1, <3>1, FS_AddElement
      <3>3. Cardinality(Rotating(t)') = Cardinality(Rotating(t)) - 1
            BY <1>14, <2>1, RotatingIsFinite, FS_RemoveElement
      <3>. QED BY <2>0, <2>1, <3>2, <3>3, RotatingIsFinite
    <2>2. CASE t \in 1..Len(tokens) /\ t # p
      <3>1. Cardinality(Rotating(t)') <= Cardinality(Rotating(t))
            BY <1>14, RotatingIsFinite, FS_Subset
      <3>2. Children(t)' = Children(t)
            BY <1>9, <2>2
      <3>. QED BY <2>0, <2>2, <3>1, <3>2, RotatingIsFinite
    <2>3. CASE t = n
      <3>1. IsFiniteSet(Children(t)') /\ Cardinality(Children(t)') = 0
            BY <1>9, <2>3, FS_EmptySet
      <3>2. tokens'[t].parent < t
            BY <1>0, <1>4, <1>9, <2>3
      <3>. QED BY <3>1, <3>2, RotatingIsFinite
    <2>. QED BY <1>10, <2>1, <2>2, <2>3
  <1>16. \A v \in AuthWorkers :
            req'[v].op \in {"rotate", "revoking"} => req'[v].token \in 1..Len(tokens')
         BY <1>10, <1>13 DEF AuthInv, RotationInv
  <1>17. Len(tokens') <= MaxTokens
         BY <1>0, <1>2, <1>3, <1>9
  <1>. QED BY <1>9, <1>12, <1>15, <1>16, <1>17 DEF RotationInv

\* A request takes a token on: to rotate it if it is not used, and so has no child.
LEMMA TokenTaken ==
    ASSUME AuthInv, NEW w \in AuthWorkers, NEW t \in 1..MaxTokens,
           RotateReads(w, t) \/ RotateFindsReuse(w, t)
    PROVE  UsedMeansReplaced' /\ RotationInv' /\ req' \in [AuthWorkers -> Req]
  <1>0. Len(tokens) \in Nat /\ clock \in Nat /\ MaxTokens \in Nat
        BY AuthAssumption DEF AuthInv, AuthTypeOK, AuthAssumption
  <1>1. t \in 1..Len(tokens) /\ tokens' = tokens
        BY <1>0 DEF RotateReads, RotateFindsReuse
  <1>2. PICK op \in {"rotate", "revoking"} :
           /\ req' = [req EXCEPT ![w] = [op |-> op, token |-> t]]
           /\ op = "rotate" => ~ tokens[t].used
        BY DEF RotateReads, RotateFindsReuse
  <1>3. [op |-> op, token |-> t] \in Req
    <2>1. t \in 0..MaxTokens
          BY <1>0
    <2>. QED BY <2>1 DEF Req
  <1>4. /\ req' \in [AuthWorkers -> Req] /\ req'[w].op = op /\ req'[w].token = t
        /\ \A v \in AuthWorkers : v # w => req'[v] = req[v]
        BY <1>2, <1>3 DEF AuthInv, AuthTypeOK
  <1>5. UsedMeansReplaced' /\ \A s : Children(s)' = Children(s)
        BY <1>1 DEF AuthInv, UsedMeansReplaced, Children
  <1>6. ASSUME NEW s \in 1..Len(tokens)
        PROVE  Cardinality(Children(s)') + Cardinality(Rotating(s)') <= Cardinality(AuthWorkers)
    <2>1. CASE s = t /\ op = "rotate"
      <3>1. Children(s)' = {}
            BY <1>2, <1>5, <2>1 DEF AuthInv, UsedMeansReplaced
      <3>. QED BY <3>1, FS_EmptySet, RotatingIsFinite
    <2>2. CASE s # t \/ op # "rotate"
      <3>1. Rotating(s)' \subseteq Rotating(s)
            BY <1>2, <1>4, <2>2 DEF Rotating
      <3>2. Cardinality(Rotating(s)') <= Cardinality(Rotating(s))
            BY <3>1, RotatingIsFinite, FS_Subset
      <3>3. /\ IsFiniteSet(Children(s)) /\ Cardinality(Children(s)) \in Nat
            /\ Cardinality(Children(s)) + Cardinality(Rotating(s)) <= Cardinality(AuthWorkers)
            BY FS_CardinalityType DEF AuthInv, RotationInv
      <3>. QED BY <1>5, <3>2, <3>3, RotatingIsFinite
    <2>. QED BY <2>1, <2>2
  <1>7. \A v \in AuthWorkers :
           req'[v].op \in {"rotate", "revoking"} => req'[v].token \in 1..Len(tokens)
        BY <1>1, <1>4 DEF AuthInv, RotationInv
  <1>8. \A s \in 1..Len(tokens) : tokens'[s].parent < s /\ IsFiniteSet(Children(s)')
        BY <1>1, <1>5 DEF AuthInv, RotationInv
  <1>9. Len(tokens') <= MaxTokens
        BY <1>1 DEF AuthInv, RotationInv
  <1>. QED BY <1>1, <1>4, <1>5, <1>6, <1>7, <1>8, <1>9 DEF RotationInv

LEMMA LoggedOut ==
    ASSUME AuthInv, Logout
    PROVE  UsedMeansReplaced' /\ RotationInv' /\ tokens' \in Seq(Token)
  <1>0. Len(tokens) \in Nat
        BY DEF AuthInv, AuthTypeOK
  <1>1. \A t \in 1..Len(tokens) : [tokens[t] EXCEPT !.revoked = TRUE] \in Token
        BY TokenType DEF AuthInv, Token
  <1>2. tokens' = [t \in 1..Len(tokens) |-> [tokens[t] EXCEPT !.revoked = TRUE]]
        BY DEF Logout
  <1>3. tokens' \in Seq(Token) /\ Len(tokens') = Len(tokens)
        BY <1>0, <1>1, <1>2
  <1>4. ASSUME NEW t \in 1..Len(tokens)
        PROVE  /\ tokens'[t].parent = tokens[t].parent
               /\ tokens'[t].family = tokens[t].family
    <2>1. tokens[t] \in Token
          BY TokenType DEF AuthInv
    <2>. QED BY <1>2, <2>1 DEF Token
  <1>5. ASSUME NEW t \in 1..Len(tokens)
        PROVE  tokens'[t].used = tokens[t].used
    <2>1. tokens[t] \in Token
          BY TokenType DEF AuthInv
    <2>. QED BY <1>2, <2>1 DEF Token
  <1>6. \A t : Children(t)' = Children(t)
        BY <1>3, <1>4 DEF Children
  <1>7. UsedMeansReplaced'
    <2>1. \A t : Children(t) \subseteq 1..Len(tokens)
          BY DEF Children
    <2>. QED BY <1>3, <1>4, <1>5, <1>6, <2>1 DEF AuthInv, UsedMeansReplaced
  <1>8. req' = req /\ \A t : Rotating(t)' = Rotating(t)
        BY DEF Logout, Rotating
  <1>9. RotationInv'
        BY <1>3, <1>4, <1>6, <1>8 DEF AuthInv, RotationInv
  <1>. QED BY <1>3, <1>7, <1>9

LEMMA AuthStep == ASSUME AuthInv, [AuthNext]_authVars PROVE AuthInv'
  <1>0. NoReq \in Req
        BY AuthAssumption DEF NoReq, Req, AuthAssumption
  <1>1. /\ account \in {"none", "active", "inactive"} /\ announced \in BOOLEAN
        /\ tokens \in Seq(Token) /\ clock \in 0..MaxTokens /\ req \in [AuthWorkers -> Req]
        /\ UsedMeansReplaced /\ RotationInv
        BY DEF AuthInv, AuthTypeOK
  <1>2. ASSUME UNCHANGED <<tokens, req>>,
               account' \in {"none", "active", "inactive"}, announced' \in BOOLEAN,
               clock' \in 0..MaxTokens
        PROVE  AuthInv'
    <2>1. UsedMeansReplaced' /\ RotationInv'
          BY ZenonT(40), <1>1, <1>2 DEF UsedMeansReplaced, RotationInv, Children, Rotating
    <2>. QED BY <1>1, <1>2, <2>1 DEF AuthInv, AuthTypeOK
  <1>3. ASSUME NEW w \in AuthWorkers, SignupFlush(w) PROVE AuthInv'
    <2>1. [req[w] EXCEPT !.op = "signup"] \in Req
          BY <1>1 DEF Req
    <2>2. req' = [req EXCEPT ![w] = [req[w] EXCEPT !.op = "signup"]] /\ tokens' = tokens
          BY <1>3 DEF SignupFlush
    <2>3. [req[w] EXCEPT !.op = "signup"].op = "signup"
          BY <1>1 DEF Req
    <2>4. UsedMeansReplaced' /\ RotationInv' /\ req' \in [AuthWorkers -> Req]
          BY <2>1, <2>2, <2>3, RequestEnds
    <2>5. announced' \in BOOLEAN
          BY <1>1, <1>3 DEF SignupFlush
    <2>. QED BY <1>1, <1>3, <2>4, <2>5 DEF SignupFlush, AuthInv, AuthTypeOK
  <1>4. ASSUME NEW w \in AuthWorkers, SignupCommit(w) PROVE AuthInv'
    <2>1. /\ req' \in [AuthWorkers -> Req]
          /\ \A v \in AuthWorkers : req'[v] = req[v] \/ req'[v] = NoReq
          BY <1>0, <1>1, <1>4 DEF SignupCommit
    <2>2. UsedMeansReplaced' /\ RotationInv' /\ tokens' \in Seq(Token)
          BY <1>4, <2>1, Issued DEF SignupCommit
    <2>. QED BY <1>1, <1>4, <2>1, <2>2 DEF SignupCommit, AuthInv, AuthTypeOK
  <1>5. ASSUME Login PROVE AuthInv'
    <2>1. UsedMeansReplaced' /\ RotationInv' /\ tokens' \in Seq(Token)
          BY <1>1, <1>5, Issued DEF Login
    <2>. QED BY <1>1, <1>5, <2>1 DEF Login, AuthInv, AuthTypeOK
  <1>6. ASSUME Deactivate PROVE AuthInv'
        BY <1>1, <1>2, <1>6 DEF Deactivate
  <1>7. ASSUME Expire PROVE AuthInv'
    <2>1. clock' \in 0..MaxTokens
      <3>1. UNCHANGED tokens /\ clock < Len(tokens) /\ clock' = clock + 1
            BY <1>7 DEF Expire
      <3>2. Len(tokens) <= MaxTokens
            BY <1>1 DEF RotationInv
      <3>. QED BY <1>1, <3>1, <3>2, AuthAssumption DEF AuthAssumption
    <2>. QED BY <1>1, <1>2, <1>7, <2>1 DEF Expire
  <1>8. ASSUME NEW w \in AuthWorkers, NEW t \in 1..MaxTokens,
               RotateReads(w, t) \/ RotateFindsReuse(w, t)
        PROVE  AuthInv'
    <2>1. UNCHANGED <<account, announced, tokens, clock>>
          BY <1>8 DEF RotateReads, RotateFindsReuse
    <2>2. UsedMeansReplaced' /\ RotationInv' /\ req' \in [AuthWorkers -> Req]
          BY <1>8, TokenTaken
    <2>. QED BY <1>1, <2>1, <2>2 DEF AuthInv, AuthTypeOK
  <1>9. ASSUME NEW w \in AuthWorkers, req' = [req EXCEPT ![w] = NoReq],
               UNCHANGED <<account, announced, tokens, clock>>
        PROVE  AuthInv'
    <2>1. NoReq.op \notin {"rotate", "revoking"}
          BY DEF NoReq
    <2>2. UsedMeansReplaced' /\ RotationInv' /\ req' \in [AuthWorkers -> Req]
          BY <1>0, <1>9, <2>1, RequestEnds
    <2>. QED BY <1>1, <1>9, <2>2 DEF AuthInv, AuthTypeOK
  <1>10. ASSUME NEW w \in AuthWorkers, RotateCommits(w) PROVE AuthInv'
    <2>1. CASE account = "active"
      <3>1. UsedMeansReplaced' /\ RotationInv' /\ tokens' \in Seq(Token)
            BY <1>10, <2>1, Rotated
      <3>2. req' \in [AuthWorkers -> Req]
            BY <1>0, <1>1, <1>10 DEF RotateCommits
      <3>. QED BY <1>1, <1>10, <3>1, <3>2 DEF RotateCommits, AuthInv, AuthTypeOK
    <2>2. CASE account # "active"
          BY <1>9, <1>10, <2>2 DEF RotateCommits
    <2>. QED BY <2>1, <2>2
  <1>11. ASSUME Logout PROVE AuthInv'
    <2>1. UsedMeansReplaced' /\ RotationInv' /\ tokens' \in Seq(Token)
          BY <1>11, LoggedOut
    <2>. QED BY <1>1, <1>11, <2>1 DEF Logout, AuthInv, AuthTypeOK
  <1>12. CASE UNCHANGED authVars
         BY <1>1, <1>2, <1>12 DEF authVars
  <1>. QED BY <1>3, <1>4, <1>5, <1>6, <1>7, <1>8, <1>9, <1>10, <1>11, <1>12
           DEF AuthNext, RotateRefused, RequestAborts

LEMMA AuthIsSafe == AuthSpec => [](AuthTypeOK /\ UsedMeansReplaced /\ RotationsOverlap)
  <1>1. AuthInv => AuthTypeOK /\ UsedMeansReplaced /\ RotationsOverlap
    <2>1. ASSUME AuthInv, NEW t \in 1..Len(tokens)
          PROVE  Cardinality(Children(t)) <= Cardinality(AuthWorkers)
      <3>1. /\ Cardinality(Children(t)) \in Nat
            /\ Cardinality(Children(t)) + Cardinality(Rotating(t)) <= Cardinality(AuthWorkers)
            BY <2>1, FS_CardinalityType DEF AuthInv, RotationInv
      <3>2. PICK c \in Nat, n \in Nat, k \in Nat :
               /\ c = Cardinality(Children(t)) /\ n = Cardinality(Rotating(t))
               /\ k = Cardinality(AuthWorkers)
            BY <3>1, RotatingIsFinite
      <3>. QED BY <3>1, <3>2
    <2>. QED BY <2>1 DEF AuthInv, RotationsOverlap
  <1>. QED BY <1>1, AuthInitially, AuthStep, PTL DEF AuthSpec

-----------------------------------------------------------------------------
(* DeviceLogin *)

\* The requests that read the code as pending.
Approving == {w \in LoginWorkers : reading[w].op = "approve"}

\* Before the first approval nobody approved; after it none that had not read the code
\* yet adds one, and the code's user is one of those who approved.
ApprovalInv ==
    /\ device.status # "APPROVED" => approved = {}
    /\ device.status = "APPROVED" => device.user \in approved
    /\ device.status = "none" => Approving = {}
    /\ IsFiniteSet(approved)
    /\ Cardinality(approved) + Cardinality(Approving) <= Cardinality(LoginWorkers)
    /\ \A w \in LoginWorkers :
          /\ reading[w].op = "approve" => reading[w].user \in Approvers
          /\ reading[w].op = "otp" => reading[w].otp \in 1..Len(otps)

DeviceInv ==
    /\ DeviceTypeOK /\ VerifiedBySpentCode
    /\ pairs \subseteq approved /\ (cli.at = "in" => cli.creds \in pairs)
    /\ Len(otps) <= MaxOtps
    /\ ApprovalInv

LEMMA ApprovingIsFinite ==
    /\ IsFiniteSet(Approving) /\ Cardinality(Approving) \in Nat
    /\ IsFiniteSet(Approving') /\ Cardinality(Approving') \in Nat
    /\ Cardinality(Approving') <= Cardinality(LoginWorkers)
    /\ Cardinality(LoginWorkers) \in Nat
  <1>1. Approving \in SUBSET LoginWorkers /\ Approving' \in SUBSET LoginWorkers
        BY DEF Approving
  <1>2. IsFiniteSet(LoginWorkers)
        BY DeviceAssumption DEF DeviceAssumption
  <1>3. /\ IsFiniteSet(Approving) /\ IsFiniteSet(Approving')
        /\ Cardinality(Approving') <= Cardinality(LoginWorkers)
        BY <1>1, <1>2, FS_Subset
  <1>. QED BY <1>2, <1>3, FS_CardinalityType

LEMMA NoReadType == /\ NoRead \in Reading /\ NoRead.op = "none"
  BY DeviceAssumption DEF NoRead, Reading, DeviceAssumption

LEMMA DeviceInitially == DeviceInit => DeviceInv
  <1>. SUFFICES ASSUME DeviceInit PROVE DeviceInv
       OBVIOUS
  <1>1. DeviceTypeOK
    <2>1. verified \in BOOLEAN
          BY DEF DeviceInit
    <2>. QED BY <2>1, NoReadType DEF DeviceInit, DeviceTypeOK, DeviceStatus
  <1>2. \A w \in LoginWorkers : reading[w].op = "none"
        BY NoReadType DEF DeviceInit
  <1>3. Approving = {} /\ approved = {}
        BY <1>2 DEF Approving, DeviceInit
  <1>4. /\ IsFiniteSet(approved)
        /\ Cardinality(approved) + Cardinality(Approving) <= Cardinality(LoginWorkers)
    <2>1. Cardinality(approved) = 0 /\ Cardinality(Approving) = 0 /\ IsFiniteSet(approved)
          BY <1>3, FS_EmptySet
    <2>. QED BY <2>1, ApprovingIsFinite
  <1>5. device.status = "none" /\ pairs = {} /\ cli.at = "out"
        BY DEF DeviceInit
  <1>6. Len(otps) = 0 /\ 1..Len(otps) = {} /\ ~ verified
        BY DEF DeviceInit
  <1>7. Len(otps) <= MaxOtps
        BY <1>6, DeviceAssumption DEF DeviceAssumption
  <1>8. VerifiedBySpentCode
        BY <1>6 DEF VerifiedBySpentCode
  <1>. QED BY <1>1, <1>2, <1>3, <1>4, <1>5, <1>7, <1>8 DEF DeviceInv, ApprovalInv

\* A step of one request that leaves the code and its approvals, unless it commits.
LEMMA ReadingChanges ==
    ASSUME DeviceInv, NEW w \in LoginWorkers, NEW r \in Reading,
           reading' = [reading EXCEPT ![w] = r],
           r.op = "approve" => r.user \in Approvers /\ device.status = "PENDING",
           r.op = "otp" => r.otp \in 1..Len(otps'),
           UNCHANGED <<device, approved>>, Len(otps') = Len(otps)
    PROVE  reading' \in [LoginWorkers -> Reading] /\ ApprovalInv'
  <1>1. /\ reading' \in [LoginWorkers -> Reading] /\ reading'[w] = r
        /\ \A v \in LoginWorkers : v # w => reading'[v] = reading[v]
        BY DEF DeviceInv, DeviceTypeOK
  <1>2. \A v \in LoginWorkers :
           /\ reading'[v].op = "approve" => reading'[v].user \in Approvers
           /\ reading'[v].op = "otp" => reading'[v].otp \in 1..Len(otps')
        BY <1>1 DEF DeviceInv, ApprovalInv
  <1>3. device'.status = "none" => Approving' = {}
    <2>1. CASE device.status = "none"
      <3>1. r.op # "approve" /\ Approving = {}
            BY <2>1 DEF DeviceInv, ApprovalInv
      <3>. QED BY <1>1, <3>1 DEF Approving
    <2>. QED BY <2>1
  <1>4. Cardinality(approved') + Cardinality(Approving') <= Cardinality(LoginWorkers)
    <2>1. CASE r.op = "approve"
      <3>1. approved' = {}
            BY <2>1 DEF DeviceInv, ApprovalInv
      <3>2. Cardinality(approved') = 0
            BY <3>1, FS_EmptySet
      <3>. QED BY <3>2, ApprovingIsFinite
    <2>2. CASE r.op # "approve"
      <3>1. Approving' \subseteq Approving
            BY <1>1, <2>2 DEF Approving
      <3>2. Cardinality(Approving') <= Cardinality(Approving)
            BY <3>1, ApprovingIsFinite, FS_Subset
      <3>3. /\ Cardinality(approved) \in Nat /\ approved' = approved
            /\ Cardinality(approved) + Cardinality(Approving) <= Cardinality(LoginWorkers)
            BY FS_CardinalityType DEF DeviceInv, ApprovalInv
      <3>. QED BY <3>2, <3>3, ApprovingIsFinite
    <2>. QED BY <2>1, <2>2
  <1>5. /\ device'.status # "APPROVED" => approved' = {}
        /\ device'.status = "APPROVED" => device'.user \in approved'
        /\ IsFiniteSet(approved')
        BY DEF DeviceInv, ApprovalInv
  <1>. QED BY <1>1, <1>2, <1>3, <1>4, <1>5 DEF ApprovalInv

LEMMA Approved ==
    ASSUME DeviceInv, NEW w \in LoginWorkers, VerifyCommits(w)
    PROVE  /\ ApprovalInv' /\ approved \subseteq approved' /\ approved' \subseteq Approvers
           /\ device' \in [status: DeviceStatus, user: Approvers \cup {NoUser}, expired: BOOLEAN]
           /\ reading' \in [LoginWorkers -> Reading]
  <1>1. PICK u \in Approvers : u = reading[w].user
        BY DEF DeviceInv, ApprovalInv, VerifyCommits
  <1>2. /\ device' = [device EXCEPT !.status = "APPROVED", !.user = u]
        /\ approved' = approved \cup {u} /\ otps' = otps
        /\ reading' = [reading EXCEPT ![w] = NoRead] /\ w \in Approving
        BY <1>1 DEF VerifyCommits, Approving
  <1>3. /\ reading' \in [LoginWorkers -> Reading] /\ reading'[w] = NoRead
        /\ \A v \in LoginWorkers : v # w => reading'[v] = reading[v]
        BY <1>2, NoReadType DEF DeviceInv, DeviceTypeOK
  <1>4. /\ device' \in [status: DeviceStatus, user: Approvers \cup {NoUser}, expired: BOOLEAN]
        /\ device'.status = "APPROVED" /\ device'.user = u
        BY <1>2 DEF DeviceInv, DeviceTypeOK, DeviceStatus
  <1>5. Approving' = Approving \ {w}
        BY <1>3, NoReadType DEF Approving
  <1>6. Cardinality(Approving') = Cardinality(Approving) - 1
        BY <1>2, <1>5, ApprovingIsFinite, FS_RemoveElement
  <1>7. IsFiniteSet(approved) /\ Cardinality(approved) \in Nat
        BY FS_CardinalityType DEF DeviceInv, ApprovalInv
  <1>8. IsFiniteSet(approved') /\ Cardinality(approved') <= Cardinality(approved) + 1
        /\ Cardinality(approved') \in Nat
    <2>1. /\ IsFiniteSet(approved')
          /\ \/ Cardinality(approved') = Cardinality(approved)
             \/ Cardinality(approved') = Cardinality(approved) + 1
          BY <1>2, <1>7, FS_AddElement
    <2>. QED BY <1>7, <2>1
  <1>9. Cardinality(approved) + Cardinality(Approving) <= Cardinality(LoginWorkers)
        BY DEF DeviceInv, ApprovalInv
  <1>10. Cardinality(approved') + Cardinality(Approving') <= Cardinality(LoginWorkers)
         BY <1>6, <1>7, <1>8, <1>9, ApprovingIsFinite
  <1>11. \A v \in LoginWorkers :
            /\ reading'[v].op = "approve" => reading'[v].user \in Approvers
            /\ reading'[v].op = "otp" => reading'[v].otp \in 1..Len(otps')
         BY <1>2, <1>3, NoReadType DEF DeviceInv, ApprovalInv
  <1>12. approved' \subseteq Approvers /\ u \in approved'
         BY <1>2 DEF DeviceInv, DeviceTypeOK
  <1>. QED BY <1>2, <1>3, <1>4, <1>8, <1>10, <1>11, <1>12 DEF ApprovalInv

LEMMA DeviceStep == ASSUME DeviceInv, [DeviceNext]_deviceVars PROVE DeviceInv'
  <1>1. /\ device \in [status: DeviceStatus, user: Approvers \cup {NoUser}, expired: BOOLEAN]
        /\ approved \subseteq Approvers /\ pairs \subseteq Approvers
        /\ cli \in [at: {"out", "polling", "in", "gaveUp"}, creds: Approvers \cup {NoUser}]
        /\ otps \in Seq(Otp) /\ verified \in BOOLEAN /\ reading \in [LoginWorkers -> Reading]
        /\ VerifiedBySpentCode /\ pairs \subseteq approved /\ (cli.at = "in" => cli.creds \in pairs)
        /\ Len(otps) <= MaxOtps /\ ApprovalInv /\ Len(otps) \in Nat
        BY DEF DeviceInv, DeviceTypeOK
  <1>2. ASSUME UNCHANGED <<approved, pairs, otps, verified, reading>>,
               device' \in [status: DeviceStatus, user: Approvers \cup {NoUser},
                            expired: BOOLEAN],
               device'.status = "APPROVED" <=> device.status = "APPROVED",
               device'.status = "none" => device.status = "none",
               device'.user = device.user,
               cli' \in [at: {"out", "polling", "in", "gaveUp"}, creds: Approvers \cup {NoUser}],
               cli'.at = "in" => cli'.creds \in pairs
        PROVE  DeviceInv'
    <2>1. VerifiedBySpentCode'
          BY <1>1, <1>2 DEF VerifiedBySpentCode
    <2>2. Approving' = Approving
          BY <1>2 DEF Approving
    <2>3. ApprovalInv'
          BY <1>1, <1>2, <2>2 DEF ApprovalInv
    <2>. QED BY <1>1, <1>2, <2>1, <2>3 DEF DeviceInv, DeviceTypeOK
  <1>3. ASSUME RequestCode PROVE DeviceInv'
    <2>1. /\ device' = [device EXCEPT !.status = "PENDING"] /\ device.status = "none"
          /\ cli' = [cli EXCEPT !.at = "polling"]
          BY <1>3 DEF RequestCode
    <2>2. /\ device' \in [status: DeviceStatus, user: Approvers \cup {NoUser}, expired: BOOLEAN]
          /\ device'.status = "PENDING" /\ device'.user = device.user
          BY <1>1, <2>1 DEF DeviceStatus
    <2>3. /\ cli' \in [at: {"out", "polling", "in", "gaveUp"}, creds: Approvers \cup {NoUser}]
          /\ cli'.at = "polling"
          BY <1>1, <2>1
    <2>. QED BY <1>2, <1>3, <2>1, <2>2, <2>3 DEF RequestCode
  <1>4. ASSUME CodeExpires PROVE DeviceInv'
    <2>1. device' = [device EXCEPT !.expired = TRUE]
          BY <1>4 DEF CodeExpires
    <2>2. /\ device' \in [status: DeviceStatus, user: Approvers \cup {NoUser}, expired: BOOLEAN]
          /\ device'.status = device.status /\ device'.user = device.user
          BY <1>1, <2>1 DEF DeviceStatus
    <2>. QED BY <1>1, <1>2, <1>4, <2>2 DEF CodeExpires
  <1>5. ASSUME GiveUp PROVE DeviceInv'
    <2>1. /\ cli' \in [at: {"out", "polling", "in", "gaveUp"}, creds: Approvers \cup {NoUser}]
          /\ cli'.at = "gaveUp"
          BY <1>1, <1>5 DEF GiveUp
    <2>. QED BY <1>1, <1>2, <1>5, <2>1 DEF GiveUp
  <1>6. ASSUME CliLogout PROVE DeviceInv'
    <2>1. /\ cli' \in [at: {"out", "polling", "in", "gaveUp"}, creds: Approvers \cup {NoUser}]
          /\ cli'.at = "out"
          BY <1>1, <1>6 DEF CliLogout
    <2>. QED BY <1>1, <1>2, <1>6, <2>1 DEF CliLogout
  <1>7. ASSUME Poll PROVE DeviceInv'
    <2>1. /\ device.user \in approved /\ pairs' = pairs \cup {device.user}
          /\ cli' \in {cli, [at |-> "in", creds |-> device.user]}
          /\ UNCHANGED <<device, approved, otps, verified, reading>>
          BY <1>1, <1>7 DEF Poll, ApprovalInv
    <2>2. /\ pairs' \subseteq approved' /\ pairs' \subseteq Approvers
          /\ (cli'.at = "in" => cli'.creds \in pairs')
          /\ cli' \in [at: {"out", "polling", "in", "gaveUp"}, creds: Approvers \cup {NoUser}]
          BY <1>1, <2>1
    <2>3. VerifiedBySpentCode' /\ Approving' = Approving
          BY <1>1, <2>1 DEF VerifiedBySpentCode, Approving
    <2>4. ApprovalInv'
          BY <1>1, <2>1, <2>3 DEF ApprovalInv
    <2>. QED BY <1>1, <2>1, <2>2, <2>3, <2>4 DEF DeviceInv, DeviceTypeOK
  <1>8. ASSUME otps' \in Seq(Otp), Len(otps') \in Nat, Len(otps) <= Len(otps'), Len(otps') <= MaxOtps,
               \A n \in 1..Len(otps) : otps'[n].used = otps[n].used,
               \A n \in 1..Len(otps') : n \notin 1..Len(otps) => ~ otps'[n].used,
               UNCHANGED <<device, approved, pairs, verified, reading, cli>>
        PROVE  DeviceInv'
    <2>1. 1..Len(otps) \subseteq 1..Len(otps')
          BY <1>1, <1>8
    <2>2. (\E n \in 1..Len(otps') : otps'[n].used) <=> (\E n \in 1..Len(otps) : otps[n].used)
          BY <1>8, <2>1
    <2>3. VerifiedBySpentCode' /\ Approving' = Approving
          BY <1>1, <1>8, <2>2 DEF VerifiedBySpentCode, Approving
    <2>4. ApprovalInv'
          BY <1>1, <1>8, <2>1, <2>3 DEF ApprovalInv
    <2>. QED BY <1>1, <1>8, <2>3, <2>4 DEF DeviceInv, DeviceTypeOK
  <1>9. ASSUME SendOtp PROVE DeviceInv'
    <2>. DEFINE o == [used |-> FALSE, attempts |-> 0, expired |-> FALSE]
    <2>1. o \in Otp /\ ~ o.used
          BY DEF Otp
    <2>2. otps' = Append(otps, o) /\ Len(otps) < MaxOtps
          BY <1>9 DEF SendOtp
    <2>. HIDE DEF o
    <2>3. /\ otps' \in Seq(Otp) /\ Len(otps') = Len(otps) + 1 /\ otps'[Len(otps) + 1] = o
          /\ \A n \in 1..Len(otps) : otps'[n] = otps[n]
          BY <1>1, <2>1, <2>2
    <2>4. Len(otps') \in Nat /\ Len(otps) <= Len(otps') /\ Len(otps') <= MaxOtps
          BY <1>1, <2>2, <2>3, DeviceAssumption DEF DeviceAssumption
    <2>5. \A n \in 1..Len(otps') : n \notin 1..Len(otps) => n = Len(otps) + 1
          BY <1>1, <2>3
    <2>6. \A n \in 1..Len(otps') : n \notin 1..Len(otps) => ~ otps'[n].used
          BY <2>1, <2>3, <2>5
    <2>. QED BY <1>8, <1>9, <2>3, <2>4, <2>6 DEF SendOtp
  <1>10. ASSUME NEW n \in 1..MaxOtps, OtpExpires(n) PROVE DeviceInv'
    <2>. DEFINE o == [otps[n] EXCEPT !.expired = TRUE]
    <2>1. n \in 1..Len(otps) /\ otps' = [otps EXCEPT ![n] = o]
          BY <1>10 DEF OtpExpires
    <2>2. otps[n] \in Otp
          BY <1>1, <2>1
    <2>3. o \in Otp /\ o.used = otps[n].used
          BY <2>2 DEF Otp
    <2>. HIDE DEF o
    <2>4. /\ otps' \in Seq(Otp) /\ Len(otps') = Len(otps)
          /\ \A m \in 1..Len(otps) : otps'[m] = IF m = n THEN o ELSE otps[m]
          BY <1>1, <2>1, <2>3, ExceptSeq
    <2>5. \A m \in 1..Len(otps) : otps'[m].used = otps[m].used
          BY <2>3, <2>4
    <2>6. Len(otps') \in Nat /\ Len(otps) <= Len(otps') /\ Len(otps') <= MaxOtps
          BY <1>1, <2>4
    <2>7. \A m \in 1..Len(otps') : m \notin 1..Len(otps) => ~ otps'[m].used
          BY <2>4
    <2>. QED BY <1>8, <1>10, <2>4, <2>5, <2>6, <2>7 DEF OtpExpires
  <1>11. ASSUME NEW w \in LoginWorkers, NEW r \in Reading, reading' = [reading EXCEPT ![w] = r],
                r.op = "approve" => r.user \in Approvers /\ device.status = "PENDING",
                r.op = "otp" => r.otp \in 1..Len(otps),
                UNCHANGED <<device, approved, pairs, otps, verified, cli>>
         PROVE  DeviceInv'
    <2>1. reading' \in [LoginWorkers -> Reading] /\ ApprovalInv'
          BY <1>11, ReadingChanges
    <2>2. VerifiedBySpentCode'
          BY <1>1, <1>11 DEF VerifiedBySpentCode
    <2>. QED BY <1>1, <1>11, <2>1, <2>2 DEF DeviceInv, DeviceTypeOK
  <1>12. ASSUME NEW w \in LoginWorkers, NEW u \in Approvers, VerifyReads(w, u) PROVE DeviceInv'
    <2>. DEFINE r == [NoRead EXCEPT !.op = "approve", !.user = u]
    <2>1. r \in Reading /\ r.op = "approve" /\ r.user = u
          BY NoReadType DEF Reading
    <2>2. /\ reading' = [reading EXCEPT ![w] = r] /\ device.status = "PENDING"
          /\ UNCHANGED <<device, approved, pairs, otps, verified, cli>>
          BY <1>12 DEF VerifyReads
    <2>. HIDE DEF r
    <2>. QED BY <1>11, <2>1, <2>2
  <1>13. ASSUME NEW w \in LoginWorkers, VerifyCommits(w) PROVE DeviceInv'
    <2>1. UNCHANGED <<pairs, otps, verified, cli>>
          BY <1>13 DEF VerifyCommits
    <2>2. VerifiedBySpentCode'
          BY <1>1, <2>1 DEF VerifiedBySpentCode
    <2>3. /\ ApprovalInv' /\ approved \subseteq approved' /\ approved' \subseteq Approvers
          /\ device' \in [status: DeviceStatus, user: Approvers \cup {NoUser}, expired: BOOLEAN]
          /\ reading' \in [LoginWorkers -> Reading]
          BY <1>13, Approved
    <2>. QED BY <1>1, <2>1, <2>2, <2>3 DEF DeviceInv, DeviceTypeOK
  <1>14. ASSUME NEW w \in LoginWorkers, NEW b \in BOOLEAN, OtpReads(w, b) PROVE DeviceInv'
    <2>1. PICK n \in Active :
             /\ reading' = [reading EXCEPT ![w] =
                              [NoRead EXCEPT !.op = "otp", !.otp = n,
                                             !.attempts = otps[n].attempts, !.right = b]]
             /\ UNCHANGED <<device, approved, pairs, otps, verified, cli>>
          BY <1>14 DEF OtpReads
    <2>. DEFINE r == [NoRead EXCEPT !.op = "otp", !.otp = n, !.attempts = otps[n].attempts,
                                    !.right = b]
    <2>2. n \in 1..Len(otps) /\ n \in 0..MaxOtps
          BY <1>1, DeviceAssumption DEF Active, DeviceAssumption
    <2>3. otps[n] \in Otp
          BY <1>1, <2>2
    <2>4. otps[n].attempts \in Nat
          BY <2>3 DEF Otp
    <2>5. r \in Reading /\ r.op = "otp" /\ r.otp = n
          BY <2>2, <2>4, NoReadType DEF Reading
    <2>6. reading' = [reading EXCEPT ![w] = r]
          BY <2>1
    <2>. HIDE DEF r
    <2>. QED BY <1>11, <2>1, <2>2, <2>5, <2>6
  <1>15. ASSUME NEW w \in LoginWorkers, LoginAborts(w) PROVE DeviceInv'
         BY <1>11, <1>15, NoReadType DEF LoginAborts
  <1>16. ASSUME NEW w \in LoginWorkers, OtpCommits(w) PROVE DeviceInv'
    <2>1. CASE ~ reading[w].right
          BY <1>11, <1>16, <2>1, NoReadType DEF OtpCommits
    <2>2. CASE reading[w].right
      <3>1. PICK n \in 1..Len(otps) : n = reading[w].otp
            BY <1>1, <1>16 DEF OtpCommits, ApprovalInv
      <3>2. PICK a \in Nat : a = reading[w].attempts + 1
            BY <1>1 DEF Reading
      <3>. DEFINE o == [otps[n] EXCEPT !.used = TRUE, !.attempts = a]
      <3>3. otps[n] \in Otp
            BY <1>1
      <3>4. o \in Otp /\ o.used
            BY <3>3 DEF Otp
      <3>5. /\ otps' = [otps EXCEPT ![n] = o] /\ verified'
            /\ reading' = [reading EXCEPT ![w] = NoRead]
            /\ UNCHANGED <<device, approved, pairs, cli>>
        <4>1. /\ otps' = [otps EXCEPT ![n].used = TRUE, ![n].attempts = a] /\ verified' = TRUE
              /\ reading' = [reading EXCEPT ![w] = NoRead]
              /\ UNCHANGED <<device, approved, pairs, cli>>
              BY <1>16, <2>2, <3>1, <3>2 DEF OtpCommits
        <4>2. [otps EXCEPT ![n].used = TRUE, ![n].attempts = a] = [otps EXCEPT ![n] = o]
              BY <1>1, <3>1, <3>3 DEF Otp
        <4>. QED BY <4>1, <4>2
      <3>. HIDE DEF o
      <3>6. /\ otps' \in Seq(Otp) /\ Len(otps') = Len(otps)
            /\ \A m \in 1..Len(otps) : otps'[m] = IF m = n THEN o ELSE otps[m]
            BY <1>1, <3>4, <3>5, ExceptSeq
      <3>7. reading' \in [LoginWorkers -> Reading] /\ ApprovalInv'
            BY <3>5, <3>6, NoReadType, ReadingChanges
      <3>8. n \in 1..Len(otps') /\ otps'[n].used
            BY <3>4, <3>6
      <3>9. VerifiedBySpentCode'
            BY <3>5, <3>8 DEF VerifiedBySpentCode
      <3>10. verified' \in BOOLEAN
            BY <1>16, <2>2 DEF OtpCommits
      <3>. QED BY <1>1, <3>5, <3>6, <3>7, <3>9, <3>10 DEF DeviceInv, DeviceTypeOK
    <2>. QED BY <2>1, <2>2
  <1>17. CASE UNCHANGED deviceVars
    <2>1. UNCHANGED <<device, approved, pairs, cli, otps, verified, reading>>
          BY <1>17 DEF deviceVars
    <2>. QED BY <1>1, <1>2, <2>1
  <1>. QED BY <1>3, <1>4, <1>5, <1>6, <1>7, <1>9, <1>10, <1>12, <1>13, <1>14, <1>15, <1>16, <1>17
           DEF DeviceNext

LEMMA DeviceIsSafe == DeviceSpec => [](DeviceTypeOK /\ PairsFollowApproval /\ VerifiedBySpentCode)
  <1>1. DeviceInv => DeviceTypeOK /\ PairsFollowApproval /\ VerifiedBySpentCode
    <2>. SUFFICES ASSUME DeviceInv PROVE PairsFollowApproval
         BY DEF DeviceInv
    <2>1. PICK a \in Nat, p \in Nat, k \in Nat :
             /\ a = Cardinality(approved) /\ p = Cardinality(Approving)
             /\ k = Cardinality(LoginWorkers)
          BY ApprovingIsFinite, FS_CardinalityType DEF DeviceInv, ApprovalInv
    <2>2. a + p <= k
          BY <2>1 DEF DeviceInv, ApprovalInv
    <2>3. Cardinality(approved) <= Cardinality(LoginWorkers)
          BY <2>1, <2>2
    <2>. QED BY <2>3 DEF DeviceInv, PairsFollowApproval
  <1>. QED BY <1>1, DeviceInitially, DeviceStep, PTL DEF DeviceSpec

-----------------------------------------------------------------------------
(* AdminControls *)

QuorumInv ==
    /\ proposal \in [status: {"none", "PENDING", "APPROVED"}, approvals: SUBSET Admins]
    /\ IsFiniteSet(proposal.approvals)
    /\ proposal.status = "none" => proposal.approvals = {}
    /\ ApprovedByQuorum

\* An elevation ends in time whether it is checked or not.
ElevationInv ==
    /\ elevation \in [active: BOOLEAN, expires: Nat] /\ granted \in Nat
    /\ elevation.active => elevation.expires <= granted + MaxTtl

KeyInv ==
    /\ failures \in 0..MaxFailures
    /\ assertion \in {"none", "verified", "refused", "locked"}
    /\ LockedVerifiesNothing

\* Before its last second of tolerance the nonce of an accepted request is remembered.
NonceInv ==
    /\ nonces \subseteq {Tolerance} /\ accepted \subseteq 0..now
    /\ \A t \in accepted : t <= 2 * Tolerance
    /\ now < 2 * Tolerance /\ accepted # {} => Tolerance \in nonces
    /\ NonceReusedOnlyAtTheEdge

AdminInv == now \in 0..MaxTime /\ QuorumInv /\ ElevationInv /\ KeyInv /\ NonceInv

LEMMA AdminInitially == AdminInit => AdminInv
  <1>. SUFFICES ASSUME AdminInit PROVE AdminInv
       OBVIOUS
  <1>1. QuorumInv
    <2>1. proposal \in [status: {"none", "PENDING", "APPROVED"}, approvals: SUBSET Admins]
          BY DEF AdminInit
    <2>2. proposal.status = "none" /\ proposal.approvals = {}
          BY DEF AdminInit
    <2>3. IsFiniteSet(proposal.approvals) /\ Cardinality(proposal.approvals) = 0
          BY <2>2, FS_EmptySet
    <2>4. ~ (Cardinality(proposal.approvals) >= Required)
          BY <2>3, AdminAssumption DEF Required, AdminAssumption
    <2>. QED BY <2>1, <2>2, <2>3, <2>4 DEF QuorumInv, ApprovedByQuorum
  <1>2. ElevationInv
        BY DEF AdminInit, ElevationInv
  <1>3. KeyInv
        BY DEF AdminInit, KeyInv, MaxFailures, LockedVerifiesNothing
  <1>4. NonceInv
        BY DEF AdminInit, NonceInv, NonceReusedOnlyAtTheEdge
  <1>5. now \in 0..MaxTime
        BY AdminAssumption DEF AdminInit, AdminAssumption
  <1>. QED BY <1>1, <1>2, <1>3, <1>4, <1>5 DEF AdminInv

\* The first approval falls short of the quorum, and each further one adds its admin.
LEMMA QuorumStep ==
    ASSUME QuorumInv, NEW a \in Admins, Propose(a) \/ Approve(a)
    PROVE  QuorumInv'
  <1>1. Required \in Nat /\ Required >= 2
        BY AdminAssumption DEF Required, AdminAssumption
  <1>2. CASE Propose(a)
    <2>1. proposal' = [status |-> "PENDING", approvals |-> {a}]
          BY <1>2 DEF Propose
    <2>2. IsFiniteSet({a}) /\ Cardinality({a}) = 1
          BY FS_Singleton
    <2>3. /\ proposal'.status = "PENDING" /\ proposal'.approvals = {a}
          /\ proposal' \in [status: {"none", "PENDING", "APPROVED"}, approvals: SUBSET Admins]
          BY <2>1
    <2>4. ~ (Cardinality(proposal'.approvals) >= Required)
          BY <1>1, <2>2, <2>3
    <2>5. IsFiniteSet(proposal'.approvals)
          BY <2>2, <2>3
    <2>. QED BY <2>3, <2>4, <2>5 DEF QuorumInv, ApprovedByQuorum
  <1>3. CASE Approve(a)
    <2>. DEFINE all == proposal.approvals \cup {a}
                s == IF Cardinality(all) >= Required THEN "APPROVED" ELSE "PENDING"
    <2>1. IsFiniteSet(all)
          BY FS_AddElement DEF QuorumInv
    <2>2. all \in SUBSET Admins /\ s \in {"PENDING", "APPROVED"}
          BY DEF QuorumInv
    <2>3. s = "APPROVED" <=> Cardinality(all) >= Required
          OBVIOUS
    <2>4. proposal' = [status |-> s, approvals |-> all]
          BY <1>3 DEF Approve
    <2>. HIDE DEF all, s
    <2>5. /\ proposal'.status = s /\ proposal'.approvals = all
          /\ proposal' \in [status: {"none", "PENDING", "APPROVED"}, approvals: SUBSET Admins]
          BY <2>2, <2>4
    <2>6. proposal'.status # "none" /\ IsFiniteSet(proposal'.approvals)
          BY <2>1, <2>2, <2>5
    <2>7. ApprovedByQuorum'
          BY <2>3, <2>5 DEF ApprovedByQuorum, Required
    <2>. QED BY <2>5, <2>6, <2>7 DEF QuorumInv
  <1>. QED BY <1>2, <1>3

LEMMA NonceStep ==
    ASSUME NonceInv, now \in Nat, \/ Pass
                                  \/ \E b \in BOOLEAN : VerifyRequest(Tolerance, b)
                                  \/ OtherRequest
    PROVE  NonceInv'
  <1>1. /\ nonces \subseteq {Tolerance} /\ accepted \subseteq 0..now
        /\ \A t \in accepted : t <= 2 * Tolerance
        /\ now < 2 * Tolerance /\ accepted # {} => Tolerance \in nonces
        /\ NonceReusedOnlyAtTheEdge /\ Tolerance \in Nat
        BY AdminAssumption DEF NonceInv, AdminAssumption
  <1>2. CASE Pass
    <2>1. UNCHANGED <<nonces, accepted>> /\ now' = now + 1
          BY <1>2 DEF Pass
    <2>2. NonceReusedOnlyAtTheEdge'
          BY <1>1, <2>1 DEF NonceReusedOnlyAtTheEdge
    <2>3. accepted' \subseteq 0..now'
          BY <1>1, <2>1
    <2>4. now' < 2 * Tolerance => now < 2 * Tolerance
          BY <1>1, <2>1
    <2>. QED BY <1>1, <2>1, <2>2, <2>3, <2>4 DEF NonceInv
  <1>3. Pruned = IF now < 2 * Tolerance THEN nonces ELSE {}
    <2>1. CASE now < 2 * Tolerance
      <3>1. \A ts \in nonces : ts + Tolerance > now
            BY <1>1, <2>1
      <3>. QED BY <2>1, <3>1 DEF Pruned
    <2>2. CASE ~ (now < 2 * Tolerance)
      <3>1. \A ts \in nonces : ~ (ts + Tolerance > now)
            BY <1>1, <2>2
      <3>. QED BY <2>2, <3>1 DEF Pruned
    <2>. QED BY <2>1, <2>2
  <1>4. CASE OtherRequest
    <2>1. UNCHANGED <<now, accepted>> /\ nonces' = Pruned
          BY <1>4 DEF OtherRequest
    <2>2. NonceReusedOnlyAtTheEdge'
          BY <1>1, <2>1 DEF NonceReusedOnlyAtTheEdge
    <2>. QED BY <1>1, <1>3, <2>1, <2>2 DEF NonceInv
  <1>5. ASSUME NEW b \in BOOLEAN, VerifyRequest(Tolerance, b) PROVE NonceInv'
    <2>1. /\ nonces' = Pruned \cup {Tolerance} /\ now' = now
          /\ accepted' \subseteq accepted \cup {now}
          /\ nonces = {} /\ now <= 2 * Tolerance
          BY <1>1, <1>5 DEF VerifyRequest, Fresh
    <2>2. nonces' = {Tolerance}
          BY <1>1, <1>3, <2>1
    <2>3. accepted' \subseteq 0..now' /\ \A t \in accepted' : t <= 2 * Tolerance
          BY <1>1, <2>1
    <2>4. accepted # {} => now = 2 * Tolerance
          BY <1>1, <2>1
    <2>5. ASSUME NEW t \in accepted', NEW s \in accepted', s < t PROVE t = 2 * Tolerance
      <3>1. s \in 0..now /\ t \in 0..now
            BY <2>1, <2>3
      <3>2. s \in accepted
            BY <2>1, <2>5, <3>1
      <3>3. CASE t \in accepted
            BY <1>1, <2>5, <3>2, <3>3 DEF NonceReusedOnlyAtTheEdge
      <3>4. CASE t = now
            BY <2>4, <3>2, <3>4
      <3>. QED BY <2>1, <3>3, <3>4
    <2>. QED BY <2>2, <2>3, <2>5 DEF NonceInv, NonceReusedOnlyAtTheEdge
  <1>. QED BY <1>2, <1>4, <1>5

LEMMA AdminStep == ASSUME AdminInv, [AdminNext]_adminVars PROVE AdminInv'
  <1>1. /\ now \in 0..MaxTime /\ now \in Nat /\ MaxTime \in Nat /\ MaxTtl \in Nat
        /\ QuorumInv /\ ElevationInv /\ KeyInv /\ NonceInv
        BY AdminAssumption DEF AdminInv, AdminAssumption
  <1>2. UNCHANGED proposal => QuorumInv'
        BY <1>1 DEF QuorumInv, ApprovedByQuorum, Required
  <1>3. UNCHANGED <<elevation, granted>> => ElevationInv'
        BY <1>1 DEF ElevationInv
  <1>4. UNCHANGED <<failures, assertion>> => KeyInv'
        BY <1>1 DEF KeyInv, LockedVerifiesNothing
  <1>5. UNCHANGED <<now, nonces, accepted>> => NonceInv'
        BY <1>1 DEF NonceInv, NonceReusedOnlyAtTheEdge
  <1>6. ASSUME Pass PROVE AdminInv'
    <2>1. now' \in 0..MaxTime
          BY <1>1, <1>6 DEF Pass
    <2>2. NonceInv'
          BY <1>1, <1>6, NonceStep
    <2>. QED BY <1>2, <1>3, <1>4, <1>6, <2>1, <2>2 DEF Pass, AdminInv
  <1>7. ASSUME NEW a \in Admins, Propose(a) \/ Approve(a) PROVE AdminInv'
    <2>1. QuorumInv'
          BY <1>1, <1>7, QuorumStep
    <2>2. UNCHANGED <<now, elevation, granted, failures, assertion, nonces, accepted>>
          BY <1>7 DEF Propose, Approve
    <2>. QED BY <1>1, <1>3, <1>4, <1>5, <2>1, <2>2 DEF AdminInv
  <1>8. ASSUME NEW d \in 0..(MaxTtl + 1), RequestElevation(d) PROVE AdminInv'
    <2>. DEFINE t == IF d = 0 \/ d > MaxTtl THEN MaxTtl ELSE d
    <2>1. t \in Nat /\ t <= MaxTtl
          BY <1>1
    <2>2. elevation' = [active |-> TRUE, expires |-> now + t] /\ granted' = now
          BY <1>8 DEF RequestElevation
    <2>. HIDE DEF t
    <2>3. elevation' \in [active: BOOLEAN, expires: Nat] /\ elevation'.expires = now + t
          BY <1>1, <2>1, <2>2
    <2>4. ElevationInv'
          BY <1>1, <2>1, <2>2, <2>3 DEF ElevationInv
    <2>. QED BY <1>1, <1>2, <1>4, <1>5, <1>8, <2>4 DEF RequestElevation, AdminInv
  <1>9. ASSUME CheckElevation \/ RevokeElevation PROVE AdminInv'
    <2>1. /\ elevation' = [elevation EXCEPT !.active = FALSE]
          /\ UNCHANGED <<now, proposal, granted, failures, assertion, nonces, accepted>>
          BY <1>9 DEF CheckElevation, RevokeElevation
    <2>2. elevation' \in [active: BOOLEAN, expires: Nat] /\ ~ elevation'.active
          BY <1>1, <2>1 DEF ElevationInv
    <2>3. ElevationInv'
          BY <1>1, <2>1, <2>2 DEF ElevationInv
    <2>. QED BY <1>1, <1>2, <1>4, <1>5, <2>1, <2>3 DEF AdminInv
  <1>10. ASSUME NEW ok \in BOOLEAN, VerifyAssertion(ok) PROVE AdminInv'
    <2>1. KeyInv'
          BY <1>1, <1>10 DEF VerifyAssertion, KeyInv, MaxFailures, LockedVerifiesNothing
    <2>. QED BY <1>1, <1>2, <1>3, <1>5, <1>10, <2>1 DEF VerifyAssertion, AdminInv
  <1>11. ASSUME OtherRequest \/ \E b \in BOOLEAN : VerifyRequest(Tolerance, b) PROVE AdminInv'
    <2>1. NonceInv'
          BY <1>1, <1>11, NonceStep
    <2>2. UNCHANGED <<now, proposal, elevation, granted, failures, assertion>>
          BY <1>11 DEF OtherRequest, VerifyRequest
    <2>. QED BY <1>1, <1>2, <1>3, <1>4, <2>1, <2>2 DEF AdminInv
  <1>12. CASE UNCHANGED adminVars
         BY <1>1, <1>2, <1>3, <1>4, <1>5, <1>12 DEF adminVars, AdminInv
  <1>. QED BY <1>6, <1>7, <1>8, <1>9, <1>10, <1>11, <1>12 DEF AdminNext

LEMMA AdminIsSafe == AdminSpec => [](/\ AdminTypeOK /\ ApprovedByQuorum /\ ElevationIsBounded
                                     /\ LockedVerifiesNothing /\ NonceReusedOnlyAtTheEdge)
  <1>1. AdminInv => /\ AdminTypeOK /\ ApprovedByQuorum /\ ElevationIsBounded
                    /\ LockedVerifiesNothing /\ NonceReusedOnlyAtTheEdge
    <2>. SUFFICES ASSUME AdminInv PROVE AdminTypeOK /\ ElevationIsBounded
         BY DEF AdminInv, QuorumInv, KeyInv, NonceInv
    <2>1. now \in Nat /\ Tolerance \in Nat /\ MaxTtl \in Nat /\ MaxTime \in Nat
          BY AdminAssumption DEF AdminInv, AdminAssumption
    <2>2. nonces \subseteq Nat /\ accepted \subseteq Nat
          BY <2>1 DEF AdminInv, NonceInv
    <2>3. AdminTypeOK
          BY <2>2 DEF AdminInv, QuorumInv, ElevationInv, KeyInv, AdminTypeOK
    <2>4. ElevationIsBounded
      <3>1. elevation.expires \in Nat /\ granted \in Nat
            BY DEF AdminInv, ElevationInv
      <3>. QED BY <2>1, <3>1 DEF AdminInv, ElevationInv, ElevationIsBounded, IsElevated
    <2>. QED BY <2>3, <2>4
  <1>. QED BY <1>1, AdminInitially, AdminStep, PTL DEF AdminSpec

-----------------------------------------------------------------------------
(* GatewayTunnels *)

\* Connections open at the same time are remembered as overlapping.
TunnelInv ==
    /\ TunnelTypeOK /\ TunnelIsServed
    /\ \A c, d \in Open : c # d => c \in overlap

LEMMA TunnelStep == ASSUME TunnelInv, [TunnelNext]_tunnelVars PROVE TunnelInv'
  <1>1. /\ tunnel \in Conns \cup {NoConn} /\ conn \in [Conns -> ConnState]
        /\ lost \subseteq Conns /\ overlap \subseteq Conns
        /\ tunnel # NoConn => conn[tunnel] \in {"reading", "closing"}
        /\ \A c \in Conns : conn[c] = "reading" /\ tunnel # c => c \in overlap
        /\ \A c, d \in Open : c # d => c \in overlap
        BY DEF TunnelInv, TunnelTypeOK, TunnelIsServed
  <1>2. NoConn \notin Conns
        BY TunnelAssumption DEF TunnelAssumption
  <1>3. ASSUME NEW c \in Conns, Dial(c) PROVE TunnelInv'
    <2>1. /\ conn' = [conn EXCEPT ![c] = "accepted"] /\ conn[c] = "new"
          /\ overlap' = IF Open = {} THEN overlap ELSE overlap \cup Open \cup {c}
          /\ UNCHANGED <<tunnel, lost>>
          BY <1>3 DEF Dial
    <2>2. Open' = Open \cup {c} /\ Open \subseteq Conns
          BY <1>1, <2>1 DEF Open
    <2>3. \A d, e \in Open' : d # e => d \in overlap'
          BY <1>1, <2>1, <2>2
    <2>4. overlap \subseteq overlap' /\ overlap' \subseteq Conns
          BY <1>1, <2>1, <2>2
    <2>5. conn' \in [Conns -> ConnState] /\ \A d \in Conns : d # c => conn'[d] = conn[d]
          BY <1>1, <2>1 DEF ConnState
    <2>6. conn'[c] = "accepted" /\ tunnel # c
          BY <1>1, <1>2, <2>1
    <2>7. TunnelIsServed'
          BY <1>1, <1>2, <2>1, <2>4, <2>5, <2>6 DEF TunnelIsServed
    <2>. QED BY <1>1, <2>1, <2>3, <2>4, <2>5, <2>7 DEF TunnelInv, TunnelTypeOK
  <1>4. ASSUME NEW c \in Conns, Register(c) PROVE TunnelInv'
    <2>1. /\ conn' = [conn EXCEPT ![c] = "reading"] /\ conn[c] = "accepted" /\ tunnel' = c
          /\ UNCHANGED <<lost, overlap>>
          BY <1>4 DEF Register
    <2>2. conn' \in [Conns -> ConnState] /\ \A d \in Conns : d # c => conn'[d] = conn[d]
          BY <1>1, <2>1 DEF ConnState
    <2>3. conn'[c] = "reading" /\ Open' = Open /\ c \in Open
          BY <1>1, <2>1, <2>2 DEF Open
    <2>4. \A d \in Conns : conn'[d] = "reading" /\ tunnel' # d => d \in overlap'
          BY <1>1, <2>1, <2>2, <2>3 DEF Open
    <2>. QED BY <1>1, <2>1, <2>2, <2>3, <2>4 DEF TunnelInv, TunnelTypeOK, TunnelIsServed
  <1>5. ASSUME NEW c \in Conns, Lose(c) PROVE TunnelInv'
        BY <1>1, <1>5 DEF Lose, TunnelInv, TunnelTypeOK, TunnelIsServed, Open
  <1>6. ASSUME NEW c \in Conns, Notice(c) PROVE TunnelInv'
    <2>1. /\ conn' = [conn EXCEPT ![c] = "closing"] /\ conn[c] = "reading"
          /\ UNCHANGED <<tunnel, lost, overlap>>
          BY <1>6 DEF Notice
    <2>2. conn' \in [Conns -> ConnState] /\ \A d \in Conns : d # c => conn'[d] = conn[d]
          BY <1>1, <2>1 DEF ConnState
    <2>3. conn'[c] = "closing" /\ Open' = Open
          BY <1>1, <2>1, <2>2 DEF Open
    <2>. QED BY <1>1, <2>1, <2>2, <2>3 DEF TunnelInv, TunnelTypeOK, TunnelIsServed
  <1>7. ASSUME NEW c \in Conns, Unregister(c) PROVE TunnelInv'
    <2>1. /\ conn' = [conn EXCEPT ![c] = "gone"] /\ conn[c] = "closing" /\ tunnel' = NoConn
          /\ UNCHANGED <<lost, overlap>>
          BY <1>7 DEF Unregister
    <2>2. conn' \in [Conns -> ConnState] /\ \A d \in Conns : d # c => conn'[d] = conn[d]
          BY <1>1, <2>1 DEF ConnState
    <2>3. conn'[c] = "gone" /\ Open' \subseteq Open /\ c \in Open
          BY <1>1, <2>1, <2>2 DEF Open
    <2>4. \A d \in Conns : conn'[d] = "reading" => d \in overlap'
      <3>. SUFFICES ASSUME NEW d \in Conns, conn'[d] = "reading" PROVE d \in overlap
           BY <2>1
      <3>1. d # c /\ d \in Open
            BY <2>2, <2>3 DEF Open
      <3>. QED BY <1>1, <2>3, <3>1
    <2>. QED BY <1>1, <2>1, <2>2, <2>3, <2>4 DEF TunnelInv, TunnelTypeOK, TunnelIsServed
  <1>8. CASE UNCHANGED tunnelVars
        BY <1>1, <1>8 DEF tunnelVars, TunnelInv, TunnelTypeOK, TunnelIsServed, Open
  <1>. QED BY <1>3, <1>4, <1>5, <1>6, <1>7, <1>8 DEF TunnelNext

LEMMA TunnelIsSafe == TunnelSpec => [](TunnelTypeOK /\ TunnelIsServed)
  <1>1. TunnelInit => TunnelInv
        BY TunnelAssumption DEF TunnelInit, TunnelInv, TunnelTypeOK, TunnelIsServed, Open, ConnState,
                                TunnelAssumption
  <1>2. TunnelInv => TunnelTypeOK /\ TunnelIsServed
        BY DEF TunnelInv
  <1>. QED BY <1>1, <1>2, TunnelStep, PTL DEF TunnelSpec

-----------------------------------------------------------------------------
(* HostVetting *)

Decided(a) == apps[a].status # "pending"

\* An application that a reviewer saw decided has not become pending since.
ReviewInv ==
    /\ Len(apps) <= MaxApplications
    /\ \A w \in VettingWorkers : work[w].op \in {"approve", "reject"} =>
          /\ work[w].app \in 1..Len(apps)
          /\ work[w].status # "pending" => Decided(work[w].app)

\* A row that a request has read is there.
KycInv == \A w \in VettingWorkers :
    work[w].op = "kyc" \/ (work[w].op = "submit" /\ work[w].app # 0) => kyc # <<>>

VettingInv == VettingTypeOK /\ GrantsWereDecided /\ ReviewInv /\ KycInv

LEMMA NoWorkType == NoWork \in Work /\ NoWork.op = "none" /\ NoWork.level = "unverified"
  <1>1. NoWork.trust \in BOOLEAN
        BY DEF NoWork
  <1>. QED BY <1>1, VettingAssumption DEF NoWork, Work, AppStatus, VettingAssumption

\* The first KYC row has been verified.
Verified == kyc # <<>> /\ kyc[1].verified

LEMMA ApplicationType ==
    ASSUME VettingTypeOK, NEW a \in 1..Len(apps)
    PROVE  apps[a] \in Application /\ apps[a].level \in Levels /\ apps[a].status \in AppStatus
  <1>1. apps[a] \in Application
        BY DEF VettingTypeOK
  <1>. QED BY <1>1 DEF Application

LEMMA VettingInitially == VettingInit => VettingInv
  <1>. SUFFICES ASSUME VettingInit PROVE VettingInv
       OBVIOUS
  <1>1. hasEmail \in BOOLEAN /\ trust \in BOOLEAN
        BY DEF VettingInit
  <1>2. VettingTypeOK
        BY <1>1, NoWorkType, VettingAssumption DEF VettingInit, VettingTypeOK, VettingAssumption
  <1>3. \A w \in VettingWorkers : work[w].op = "none"
        BY NoWorkType DEF VettingInit
  <1>4. Len(apps) <= MaxApplications /\ level = "unverified" /\ ~ (accounts > 0)
        BY VettingAssumption DEF VettingInit, VettingAssumption
  <1>. QED BY <1>2, <1>3, <1>4 DEF VettingInv, GrantsWereDecided, ReviewInv, KycInv

\* The level stays one that was decided while decided applications stay decided.
LEMMA LevelStays ==
    ASSUME VettingInv, Len(apps') \in Nat, Len(apps') >= Len(apps),
           \A a \in 1..Len(apps) : apps'[a].level = apps[a].level /\ (Decided(a) => Decided(a)'),
           \/ level' \in {level, "unverified"}
           \/ \E a \in 1..Len(apps') : apps'[a].level = level' /\ Decided(a)',
           accounts' > 0 => Verified'
    PROVE  GrantsWereDecided'
  <1>1. 1..Len(apps) \subseteq 1..Len(apps')
        BY DEF VettingInv, VettingTypeOK
  <1>2. level # "unverified" => \E a \in 1..Len(apps) : apps[a].level = level /\ Decided(a)
        BY DEF VettingInv, GrantsWereDecided, Decided
  <1>3. level' # "unverified" =>
           \E a \in 1..Len(apps') : apps'[a].level = level' /\ Decided(a)'
        BY <1>1, <1>2
  <1>. QED BY <1>3 DEF GrantsWereDecided, Decided, Verified

\* Requests keep what they read while decided applications stay decided.
LEMMA ReviewsStay ==
    ASSUME VettingInv, Len(apps') \in Nat, Len(apps') >= Len(apps), Len(apps') <= MaxApplications,
           \A a \in 1..Len(apps) : Decided(a) => Decided(a)',
           \A v \in VettingWorkers : work'[v] = work[v] \/ work'[v].op \notin {"approve", "reject"}
    PROVE  ReviewInv'
  <1>1. 1..Len(apps) \subseteq 1..Len(apps')
        BY DEF VettingInv, VettingTypeOK
  <1>2. ASSUME NEW v \in VettingWorkers, work'[v].op \in {"approve", "reject"}
        PROVE  /\ work'[v].app \in 1..Len(apps')
               /\ work'[v].status # "pending" => Decided(work[v].app)'
    <2>1. work'[v] = work[v] /\ work[v].op \in {"approve", "reject"}
          BY <1>2
    <2>2. PICK a \in 1..Len(apps) : a = work[v].app /\ (work[v].status # "pending" => Decided(a))
          BY <2>1 DEF VettingInv, ReviewInv
    <2>3. work[v].status # "pending" => Decided(a)'
          BY <2>2
    <2>. QED BY <1>1, <2>1, <2>2, <2>3 DEF Decided
  <1>. QED BY <1>2 DEF ReviewInv, Decided

\* A request's status is written, or left where it was decided since.
LEMMA ReviewCommits ==
    ASSUME VettingInv, NEW w \in VettingWorkers, ApproveCommits(w) \/ RejectCommits(w)
    PROVE  VettingInv'
  <1>. DEFINE new == IF work[w].op = "approve" THEN "approved" ELSE "rejected"
  <1>1. PICK a \in 1..Len(apps) : a = work[w].app /\ (work[w].status # "pending" => Decided(a))
        BY DEF VettingInv, ReviewInv, ApproveCommits, RejectCommits
  <1>. DEFINE s == Written(work[w].status, new, apps[a].status)
              r == [apps[a] EXCEPT !.status = s]
  <1>2. /\ apps' = [apps EXCEPT ![a] = r] /\ work' = [work EXCEPT ![w] = NoWork]
        /\ level' = level \/ level' = apps[a].level
        /\ UNCHANGED <<hasEmail, trust, kyc, accounts>>
        BY <1>1 DEF ApproveCommits, RejectCommits, Done, Written
  <1>3. new \in {"approved", "rejected"} /\ apps \in Seq(Application) /\ Len(apps) \in Nat
        BY DEF VettingInv, VettingTypeOK
  <1>4. apps[a] \in Application /\ apps[a].level \in Levels /\ apps[a].status \in AppStatus
        BY ApplicationType DEF VettingInv
  <1>5. s \in AppStatus /\ s # "pending"
        BY <1>1, <1>3, <1>4 DEF Written, Decided, AppStatus
  <1>. HIDE DEF s
  <1>6. r \in Application /\ r.level = apps[a].level /\ r.status = s
        BY <1>4, <1>5 DEF Application
  <1>. HIDE DEF r
  <1>7. /\ apps' \in Seq(Application) /\ Len(apps') = Len(apps)
        /\ \A b \in 1..Len(apps) : apps'[b] = IF b = a THEN r ELSE apps[b]
        BY <1>2, <1>3, <1>6, ExceptSeq
  <1>8. Decided(a)' /\ apps'[a].level = apps[a].level
        BY <1>5, <1>6, <1>7 DEF Decided
  <1>9. \A b \in 1..Len(apps) : apps'[b].level = apps[b].level /\ (Decided(b) => Decided(b)')
        BY <1>7, <1>8 DEF Decided
  <1>10. /\ work' \in [VettingWorkers -> Work]
         /\ \A v \in VettingWorkers : work'[v] = work[v] \/ work'[v].op \notin {"approve", "reject"}
         BY <1>2, NoWorkType DEF VettingInv, VettingTypeOK
  <1>11. GrantsWereDecided'
    <2>1. accounts' > 0 => Verified'
          BY <1>2 DEF VettingInv, GrantsWereDecided, Verified
    <2>2. level' \in {level, "unverified"}
          \/ \E b \in 1..Len(apps') : apps'[b].level = level' /\ Decided(b)'
          BY <1>2, <1>7, <1>8
    <2>. QED BY <1>3, <1>7, <1>9, <2>1, <2>2, LevelStays
  <1>12. ReviewInv'
    <2>1. Len(apps') <= MaxApplications
          BY <1>7 DEF VettingInv, ReviewInv
    <2>. QED BY <1>3, <1>7, <1>9, <1>10, <2>1, ReviewsStay
  <1>13. level' \in Levels \cup {"unverified"}
         BY <1>2, <1>4 DEF VettingInv, VettingTypeOK
  <1>14. KycInv'
         BY <1>2, NoWorkType DEF VettingInv, VettingTypeOK, KycInv
  <1>. QED BY <1>2, <1>7, <1>10, <1>11, <1>12, <1>13, <1>14 DEF VettingInv, VettingTypeOK

LEMMA Applied ==
    ASSUME VettingInv, NEW w \in VettingWorkers, NEW l \in Levels, Apply(w, l)
    PROVE  VettingInv'
  <1>. DEFINE k == [level |-> l, status |-> IF AutoSilver(l) THEN "approved" ELSE "pending"]
  <1>1. /\ apps' = Append(apps, k) /\ Len(apps) < MaxApplications
        /\ level' = IF AutoSilver(l) THEN "silver" ELSE level
        /\ UNCHANGED <<hasEmail, trust, work, kyc, accounts>>
        BY DEF Apply
  <1>2. k \in Application /\ k.level = l /\ (AutoSilver(l) => k.status = "approved")
        BY DEF Application, AppStatus
  <1>. HIDE DEF k
  <1>3. PICK n \in Nat : n = Len(apps) + 1 /\ Len(apps) \in Nat /\ MaxApplications \in Nat
        BY VettingAssumption DEF VettingInv, VettingTypeOK, VettingAssumption
  <1>4. /\ apps' \in Seq(Application) /\ Len(apps') = n /\ apps'[n] = k
        /\ \A a \in 1..Len(apps) : apps'[a] = apps[a]
        BY <1>1, <1>2, <1>3 DEF VettingInv, VettingTypeOK
  <1>5. \A a \in 1..Len(apps) : apps'[a].level = apps[a].level /\ (Decided(a) => Decided(a)')
        BY <1>4 DEF Decided
  <1>6. level' \in {level, "unverified"}
        \/ \E a \in 1..Len(apps') : apps'[a].level = level' /\ Decided(a)'
    <2>1. CASE AutoSilver(l)
      <3>1. apps'[n].level = level' /\ Decided(n)'
            BY <1>1, <1>2, <1>4, <2>1 DEF AutoSilver, Decided
      <3>2. n \in 1..Len(apps')
            BY <1>3, <1>4
      <3>. QED BY <3>1, <3>2
    <2>2. CASE ~ AutoSilver(l)
          BY <1>1, <2>2
    <2>. QED BY <2>1, <2>2
  <1>7. Len(apps') \in Nat /\ Len(apps') >= Len(apps) /\ Len(apps') <= MaxApplications
        BY <1>1, <1>3, <1>4
  <1>8. accounts' > 0 => Verified'
        BY <1>1 DEF VettingInv, GrantsWereDecided, Verified
  <1>9. GrantsWereDecided'
        BY <1>5, <1>6, <1>7, <1>8, LevelStays
  <1>10. ReviewInv'
         BY <1>1, <1>5, <1>7, ReviewsStay
  <1>11. level' \in Levels \cup {"unverified"}
         BY <1>1, VettingAssumption DEF VettingInv, VettingTypeOK, VettingAssumption
  <1>12. KycInv'
         BY <1>1 DEF VettingInv, KycInv
  <1>. QED BY <1>1, <1>4, <1>9, <1>10, <1>11, <1>12 DEF VettingInv, VettingTypeOK

LEMMA Revoked ==
    ASSUME VettingInv, NEW w \in VettingWorkers, RevokeCommits(w)
    PROVE  VettingInv'
  <1>1. /\ apps' = [a \in 1..Len(apps) |-> IF a \in work[w].approved
                                           THEN [apps[a] EXCEPT !.status = "revoked"] ELSE apps[a]]
        /\ level' \in {level, "unverified"} /\ trust' \in {trust, TRUE}
        /\ work' = [work EXCEPT ![w] = NoWork] /\ UNCHANGED <<hasEmail, kyc, accounts>>
        BY DEF RevokeCommits, Written, Done
  <1>2. Len(apps) \in Nat
        BY DEF VettingInv, VettingTypeOK
  <1>3. \A a \in 1..Len(apps) :
           /\ [apps[a] EXCEPT !.status = "revoked"] \in Application
           /\ [apps[a] EXCEPT !.status = "revoked"].level = apps[a].level
           /\ [apps[a] EXCEPT !.status = "revoked"].status = "revoked"
           /\ apps[a] \in Application
        BY ApplicationType DEF VettingInv, Application, AppStatus
  <1>4. apps' \in Seq(Application) /\ Len(apps') = Len(apps)
        BY <1>1, <1>2, <1>3
  <1>5. \A a \in 1..Len(apps) : apps'[a].level = apps[a].level /\ (Decided(a) => Decided(a)')
        BY <1>1, <1>3 DEF Decided
  <1>6. /\ work' \in [VettingWorkers -> Work]
        /\ \A v \in VettingWorkers : work'[v] = work[v] \/ work'[v].op \notin {"approve", "reject"}
        BY <1>1, NoWorkType DEF VettingInv, VettingTypeOK
  <1>7. accounts' > 0 => Verified'
        BY <1>1 DEF VettingInv, GrantsWereDecided, Verified
  <1>8. Len(apps') <= MaxApplications
        BY <1>4 DEF VettingInv, ReviewInv
  <1>9. GrantsWereDecided'
        BY <1>1, <1>2, <1>4, <1>5, <1>7, LevelStays
  <1>10. ReviewInv'
         BY <1>2, <1>4, <1>5, <1>6, <1>8, ReviewsStay
  <1>11. level' \in Levels \cup {"unverified"}
         BY <1>1 DEF VettingInv, VettingTypeOK
  <1>12. trust' \in BOOLEAN
         BY <1>1 DEF VettingInv, VettingTypeOK
  <1>13. KycInv'
         BY <1>1, NoWorkType DEF VettingInv, VettingTypeOK, KycInv
  <1>. QED BY <1>1, <1>4, <1>6, <1>9, <1>10, <1>11, <1>12, <1>13 DEF VettingInv, VettingTypeOK

\* A step that leaves the applications, the level and the flag.
LEMMA WorkChanges ==
    ASSUME VettingInv, UNCHANGED <<hasEmail, level, trust, apps>>,
           kyc' \in Seq(KycRow), kyc # <<>> => kyc' # <<>>,
           accounts' \in 0..MaxAccounts, accounts' > 0 => Verified',
           work' \in [VettingWorkers -> Work], NEW w,
           w \in VettingWorkers /\ (work'[w].op = "kyc" \/ (work'[w].op = "submit" /\ work'[w].app # 0))
              => kyc' # <<>>,
           \A v \in VettingWorkers : v = w \/ work'[v] = work[v],
           w \in VettingWorkers /\ work'[w].op \in {"approve", "reject"} =>
              /\ work'[w].app \in 1..Len(apps)
              /\ work'[w].status # "pending" => Decided(work'[w].app)
    PROVE  VettingInv'
  <1>1. GrantsWereDecided'
        BY DEF VettingInv, GrantsWereDecided, Verified
  <1>2. ASSUME NEW v \in VettingWorkers, work'[v].op \in {"approve", "reject"}
        PROVE  /\ work'[v].app \in 1..Len(apps)
               /\ work'[v].status # "pending" => Decided(work'[v].app)
        BY <1>2 DEF VettingInv, ReviewInv
  <1>3. ReviewInv'
        BY <1>2 DEF VettingInv, ReviewInv, Decided
  <1>4. KycInv'
        BY DEF VettingInv, KycInv
  <1>. QED BY <1>1, <1>3, <1>4 DEF VettingInv, VettingTypeOK

LEMMA VettingStep == ASSUME VettingInv, [VettingNext]_vettingVars PROVE VettingInv'
  <1>1. /\ hasEmail \in BOOLEAN /\ level \in Levels \cup {"unverified"} /\ trust \in BOOLEAN
        /\ apps \in Seq(Application) /\ work \in [VettingWorkers -> Work]
        /\ kyc \in Seq(KycRow)
        /\ accounts \in 0..MaxAccounts /\ Len(apps) \in Nat /\ Len(apps) <= MaxApplications
        /\ MaxApplications \in Nat /\ MaxAccounts \in Nat
        BY VettingAssumption DEF VettingInv, VettingTypeOK, ReviewInv, VettingAssumption
  <1>2. accounts > 0 => Verified
        BY DEF VettingInv, GrantsWereDecided, Verified
  <1>3. ASSUME NEW w \in VettingWorkers, NEW r \in Work, work' = [work EXCEPT ![w] = r],
               UNCHANGED <<hasEmail, level, trust, apps, kyc, accounts>>,
               r.op = "kyc" \/ (r.op = "submit" /\ r.app # 0) => kyc # <<>>,
               r.op \in {"approve", "reject"} =>
                  r.app \in 1..Len(apps) /\ (r.status # "pending" => Decided(r.app))
        PROVE  VettingInv'
    <2>1. /\ work' \in [VettingWorkers -> Work] /\ work'[w] = r
          /\ \A v \in VettingWorkers : v = w \/ work'[v] = work[v]
          BY <1>1, <1>3
    <2>2. accounts' \in 0..MaxAccounts /\ (accounts' > 0 => Verified')
          BY <1>1, <1>2, <1>3 DEF Verified
    <2>3. kyc' \in Seq(KycRow) /\ kyc' = kyc
          BY <1>1, <1>3
    <2>. QED BY <1>3, <2>1, <2>2, <2>3, WorkChanges
  <1>4. ASSUME NEW w \in VettingWorkers, NEW a \in 1..Len(apps),
               NEW op \in {"approve", "reject"}, ReviewReads(w, op, a)
        PROVE  VettingInv'
    <2>. DEFINE r == [NoWork EXCEPT !.op = op, !.app = a, !.status = apps[a].status,
                                    !.level = level]
    <2>1. apps[a].status \in AppStatus /\ a \in Ids
          BY <1>1, ApplicationType DEF VettingInv, Ids
    <2>2. r \in Work /\ r.op = op /\ r.app = a /\ r.status = apps[a].status
          BY <1>1, <2>1, NoWorkType DEF Work
    <2>3. work' = [work EXCEPT ![w] = r] /\ UNCHANGED <<hasEmail, level, trust, apps, kyc, accounts>>
          BY <1>4 DEF ReviewReads
    <2>. HIDE DEF r
    <2>4. r.status # "pending" => Decided(r.app)
          BY <2>2 DEF Decided
    <2>. QED BY <1>3, <2>2, <2>3, <2>4
  <1>5. ASSUME NEW w \in VettingWorkers, RevokeReads(w) PROVE VettingInv'
    <2>. DEFINE r == [NoWork EXCEPT !.op = "revoke", !.level = level, !.trust = trust,
                                    !.approved = Standing]
    <2>1. Standing \in SUBSET Ids
          BY <1>1 DEF Standing, Ids
    <2>2. r \in Work /\ r.op = "revoke"
          BY <1>1, <2>1, NoWorkType DEF Work
    <2>3. work' = [work EXCEPT ![w] = r] /\ UNCHANGED <<hasEmail, level, trust, apps, kyc, accounts>>
          BY <1>5 DEF RevokeReads
    <2>. HIDE DEF r
    <2>. QED BY <1>3, <2>2, <2>3
  <1>6. ASSUME NEW w \in VettingWorkers, VettingAborts(w) PROVE VettingInv'
        BY <1>3, <1>6, NoWorkType DEF VettingAborts, Done
  <1>7. ASSUME NEW w \in VettingWorkers, NEW op \in {"submit", "kyc"}, KycReads(w, op)
        PROVE  VettingInv'
    <2>. DEFINE r == IF kyc = <<>> THEN [NoWork EXCEPT !.op = op]
                     ELSE [NoWork EXCEPT !.op = op, !.app = 1, !.status = kyc[1].status]
    <2>1. kyc # <<>> => kyc[1].status \in AppStatus
      <3>1. kyc # <<>> => kyc[1] \in KycRow
            BY <1>1
      <3>. QED BY <3>1 DEF KycRow, AppStatus
    <2>2. r \in Work /\ r.op = op /\ (kyc = <<>> => r.app = 0)
      <3>1. CASE kyc = <<>>
            BY <3>1, NoWorkType DEF Work, NoWork
      <3>2. CASE kyc # <<>>
            BY <2>1, <3>2, NoWorkType DEF Work
      <3>. QED BY <3>1, <3>2
    <2>3. /\ work' = [work EXCEPT ![w] = r] /\ (op = "kyc" => kyc # <<>>)
          /\ UNCHANGED <<hasEmail, level, trust, apps, kyc, accounts>>
          BY <1>7 DEF KycReads
    <2>. HIDE DEF r
    <2>. QED BY <1>3, <2>2, <2>3
  <1>8. ASSUME NEW w \in VettingWorkers, SubmitKycCommits(w) PROVE VettingInv'
    <2>1. /\ work' = [work EXCEPT ![w] = NoWork] /\ work[w].op = "submit"
          /\ UNCHANGED <<hasEmail, level, trust, apps, accounts>>
          BY <1>8 DEF SubmitKycCommits, Done
    <2>2. kyc' \in Seq(KycRow) /\ kyc' # <<>> /\ (kyc # <<>> => kyc'[1].verified = kyc[1].verified)
      <3>1. CASE work[w].app = 0
        <4>. DEFINE r == [status |-> "pending", verified |-> FALSE]
        <4>1. r \in KycRow /\ kyc' = Append(kyc, r)
              BY <1>8, <3>1 DEF SubmitKycCommits, KycRow
        <4>. HIDE DEF r
        <4>. QED BY <1>1, <4>1
      <3>2. CASE work[w].app # 0
        <4>. DEFINE r == [kyc[1] EXCEPT !.status = Written(work[w].status, "pending", kyc[1].status)]
        <4>1. kyc # <<>> /\ Len(kyc) \in Nat /\ 1 \in 1..Len(kyc) /\ kyc[1] \in KycRow
              BY <1>1, <2>1, <3>2 DEF VettingInv, KycInv
        <4>2. r \in KycRow /\ r.verified = kyc[1].verified
              BY <4>1 DEF KycRow, Written
        <4>3. kyc' = [kyc EXCEPT ![1] = r]
              BY <1>8, <3>2 DEF SubmitKycCommits
        <4>. HIDE DEF r
        <4>4. kyc' \in Seq(KycRow) /\ Len(kyc') = Len(kyc) /\ kyc'[1] = r
              BY <1>1, <4>1, <4>2, <4>3, ExceptSeq
        <4>. QED BY <4>1, <4>2, <4>4
      <3>. QED BY <3>1, <3>2
    <2>3. accounts' \in 0..MaxAccounts /\ (accounts' > 0 => Verified')
          BY <1>1, <1>2, <2>1, <2>2 DEF Verified
    <2>4. /\ work' \in [VettingWorkers -> Work] /\ work'[w].op = "none"
          /\ \A v \in VettingWorkers : v = w \/ work'[v] = work[v]
          BY <1>1, <2>1, NoWorkType
    <2>. QED BY <2>1, <2>2, <2>3, <2>4, WorkChanges
  <1>9. ASSUME NEW w \in VettingWorkers, ApproveKycCommits(w) PROVE VettingInv'
    <2>. DEFINE r == [status |-> Written(work[w].status, "approved", kyc[1].status),
                      verified |-> TRUE]
    <2>1. /\ kyc' = [kyc EXCEPT ![1] = r] /\ accounts' = accounts + 1
          /\ accounts < MaxAccounts /\ work' = [work EXCEPT ![w] = NoWork]
          /\ work[w].op = "kyc" /\ UNCHANGED <<hasEmail, level, trust, apps>>
          BY <1>9 DEF ApproveKycCommits, Done
    <2>2. kyc' \in Seq(KycRow) /\ kyc' # <<>> /\ Verified'
      <3>1. kyc # <<>> /\ Len(kyc) \in Nat /\ 1 \in 1..Len(kyc) /\ kyc[1] \in KycRow
            BY <1>1, <2>1 DEF VettingInv, KycInv
      <3>2. r \in KycRow /\ r.verified
            BY <3>1 DEF KycRow, Written
      <3>. HIDE DEF r
      <3>3. kyc' \in Seq(KycRow) /\ Len(kyc') = Len(kyc) /\ kyc'[1] = r
            BY <1>1, <2>1, <3>1, <3>2, ExceptSeq
      <3>. QED BY <3>1, <3>2, <3>3 DEF Verified
    <2>3. accounts' \in 0..MaxAccounts
          BY <1>1, <2>1
    <2>4. /\ work' \in [VettingWorkers -> Work] /\ work'[w].op = "none"
          /\ \A v \in VettingWorkers : v = w \/ work'[v] = work[v]
          BY <1>1, <2>1, NoWorkType
    <2>. QED BY <2>1, <2>2, <2>3, <2>4, WorkChanges
  <1>10. CASE UNCHANGED vettingVars
    <2>1. UNCHANGED <<hasEmail, level, trust, apps, work, kyc, accounts>>
          BY <1>10 DEF vettingVars
    <2>2. GrantsWereDecided' /\ ReviewInv' /\ KycInv'
          BY <2>1 DEF VettingInv, GrantsWereDecided, ReviewInv, Decided, KycInv
    <2>. QED BY <1>1, <2>1, <2>2 DEF VettingInv, VettingTypeOK
  <1>. QED BY <1>4, <1>5, <1>6, <1>7, <1>8, <1>9, <1>10, Applied, ReviewCommits, Revoked
           DEF VettingNext

LEMMA VettingIsSafe == VettingSpec => [](VettingTypeOK /\ GrantsWereDecided)
  <1>1. VettingInv => VettingTypeOK /\ GrantsWereDecided
        BY DEF VettingInv
  <1>. QED BY <1>1, VettingInitially, VettingStep, PTL DEF VettingSpec

-----------------------------------------------------------------------------
(* ApiGateway *)

\* A minute that is not over has all its requests in its key.
KeysCount ==
    \A m \in 0..MaxMinutes :
        /\ counted[m] <= Limit
        /\ m >= minute => counted[m] <= count[m]

\* Where an attempt is says what has been done of it.
AttemptIsDone(k, n) ==
    /\ n \in {0, 1}
    /\ k.at \in {"keyed", "passed", "forwarded"} => n = 0
    /\ k.at = "acted" => n = 1
    /\ k.at # "idle" => k.answer = "none"
    /\ k.at = "forwarded" \/ n = 1 => k.route \in Public \/ k.token
    /\ k.answer = "ok" => n = 1
    /\ k.answer \in {"401", "429"} => n = 0

GatewayInv ==
    /\ GatewayTypeOK /\ KeysCount
    /\ \A c \in Clients : AttemptIsDone(call[c], executed[c])

LEMMA QuietType == /\ Quiet \in Call /\ Quiet.at = "idle" /\ Quiet.answer = "none"
  <1>1. (CHOOSE r \in SampleRoutes : TRUE) \in SampleRoutes
        BY DEF SampleRoutes
  <1>2. PICK q \in SampleRoutes : q = CHOOSE r \in SampleRoutes : TRUE
        BY <1>1
  <1>3. Quiet = [at |-> "idle", minute |-> 0, route |-> q, token |-> FALSE, tries |-> 0,
                 answer |-> "none"]
        BY <1>2 DEF Quiet
  <1>4. 0 \in 0..MaxMinutes /\ 0 \in 0..MaxRequests /\ FALSE \in BOOLEAN
        BY GatewayAssumption DEF GatewayAssumption
  <1>. QED BY <1>3, <1>4 DEF Call

LEMMA GatewayInitially == GatewayInit => GatewayInv
  <1>. SUFFICES ASSUME GatewayInit PROVE GatewayInv
       OBVIOUS
  <1>1. ttl \in [0..MaxMinutes -> BOOLEAN]
        BY DEF GatewayInit
  <1>2. /\ minute \in 0..MaxMinutes /\ count \in [0..MaxMinutes -> Nat]
        /\ counted \in [0..MaxMinutes -> Nat] /\ executed \in [Clients -> Nat]
        BY GatewayAssumption DEF GatewayInit, GatewayAssumption
  <1>3. call \in [Clients -> Call]
        BY QuietType DEF GatewayInit
  <1>4. KeysCount
        BY GatewayAssumption DEF GatewayInit, KeysCount, GatewayAssumption
  <1>5. \A c \in Clients : executed[c] = 0 /\ call[c].at = "idle" /\ call[c].answer = "none"
        BY QuietType DEF GatewayInit
  <1>6. \A c \in Clients : AttemptIsDone(call[c], executed[c])
        BY <1>5 DEF AttemptIsDone
  <1>. QED BY <1>1, <1>2, <1>3, <1>4, <1>6 DEF GatewayInv, GatewayTypeOK

\* A step of one client's attempt; the keys and the minute are as they were.
LEMMA AttemptStep ==
    ASSUME GatewayInv, NEW c \in Clients, NEW k \in Call, NEW n \in Nat,
           call' = [call EXCEPT ![c] = k],
           executed' \in [Clients -> Nat], executed'[c] = n,
           \A d \in Clients : d # c => executed'[d] = executed[d],
           AttemptIsDone(k, n)
    PROVE  /\ call' \in [Clients -> Call]
           /\ \A d \in Clients : AttemptIsDone(call'[d], executed'[d])
  <1>1. /\ call' \in [Clients -> Call] /\ call'[c] = k
        /\ \A d \in Clients : d # c => call'[d] = call[d]
        BY DEF GatewayInv, GatewayTypeOK
  <1>2. ASSUME NEW d \in Clients PROVE AttemptIsDone(call'[d], executed'[d])
    <2>1. CASE d = c
          BY <1>1, <2>1
    <2>2. CASE d # c
          BY <1>1, <2>2 DEF GatewayInv
    <2>. QED BY <2>1, <2>2
  <1>. QED BY <1>1, <1>2

LEMMA GatewayStep == ASSUME GatewayInv, [GatewayNext]_gatewayVars PROVE GatewayInv'
  <1>1. /\ minute \in 0..MaxMinutes /\ count \in [0..MaxMinutes -> Nat]
        /\ ttl \in [0..MaxMinutes -> BOOLEAN] /\ counted \in [0..MaxMinutes -> Nat]
        /\ call \in [Clients -> Call] /\ executed \in [Clients -> Nat]
        /\ KeysCount /\ \A c \in Clients : AttemptIsDone(call[c], executed[c])
        BY DEF GatewayInv, GatewayTypeOK
  <1>2. MaxMinutes \in Nat /\ Limit \in Nat /\ MaxRequests \in Nat /\ minute \in Nat
        BY <1>1, GatewayAssumption DEF GatewayAssumption
  <1>3. ASSUME NEW c \in Clients PROVE call[c] \in Call /\ call[c].minute \in 0..MaxMinutes
                                       /\ call[c].tries \in 0..MaxRequests
        BY <1>1 DEF Call
  <1>4. ASSUME NextMinute PROVE GatewayInv'
    <2>1. minute' \in 0..MaxMinutes
          BY <1>1, <1>2, <1>4 DEF NextMinute
    <2>2. KeysCount'
          BY <1>1, <1>2, <1>4 DEF NextMinute, KeysCount
    <2>. QED BY <1>1, <1>4, <2>1, <2>2 DEF NextMinute, GatewayInv, GatewayTypeOK
  <1>5. ASSUME NEW m \in 0..MaxMinutes, KeyExpires(m) PROVE GatewayInv'
    <2>1. /\ count' \in [0..MaxMinutes -> Nat]
          /\ \A k \in 0..MaxMinutes : k # m => count'[k] = count[k]
          BY <1>1, <1>5 DEF KeyExpires
    <2>2. ttl' \in [0..MaxMinutes -> BOOLEAN]
          BY <1>1, <1>5 DEF KeyExpires
    <2>3. m < minute /\ UNCHANGED <<minute, counted, call, executed>>
          BY <1>5 DEF KeyExpires
    <2>4. KeysCount'
          BY <1>1, <1>2, <2>1, <2>3 DEF KeysCount
    <2>. QED BY <1>1, <2>1, <2>2, <2>3, <2>4 DEF GatewayInv, GatewayTypeOK
  <1>6. ASSUME NEW c \in Clients, NEW r \in SampleRoutes, NEW t \in BOOLEAN, Arrive(c, r, t)
        PROVE  GatewayInv'
    <2>1. PICK n \in 0..MaxRequests : n = call[c].tries + 1
          BY <1>2, <1>3, <1>6 DEF Arrive
    <2>. DEFINE k == [at |-> "keyed", minute |-> minute, route |-> r, token |-> t, tries |-> n,
                      answer |-> "none"]
    <2>2. k \in Call /\ k.at = "keyed" /\ k.answer = "none"
          BY <1>1 DEF Call
    <2>3. /\ call' = [call EXCEPT ![c] = k] /\ executed' = [executed EXCEPT ![c] = 0]
          /\ UNCHANGED <<minute, count, ttl, counted>>
          BY <1>1, <2>1, <1>6 DEF Arrive
    <2>. HIDE DEF k
    <2>4. AttemptIsDone(k, 0)
          BY <2>2 DEF AttemptIsDone
    <2>5. /\ executed' \in [Clients -> Nat] /\ executed'[c] = 0
          /\ \A d \in Clients : d # c => executed'[d] = executed[d]
          BY <1>1, <2>3
    <2>6. /\ call' \in [Clients -> Call]
          /\ \A d \in Clients : AttemptIsDone(call'[d], executed'[d])
          BY <2>2, <2>3, <2>4, <2>5, AttemptStep
    <2>7. KeysCount'
          BY <1>1, <2>3 DEF KeysCount
    <2>. QED BY <1>1, <2>3, <2>5, <2>6, <2>7 DEF GatewayInv, GatewayTypeOK
  <1>7. ASSUME NEW c \in Clients, NEW k \in Call, call' = [call EXCEPT ![c] = k],
               executed' = executed, AttemptIsDone(k, executed[c]),
               UNCHANGED <<minute, count, ttl, counted>>
        PROVE  GatewayInv'
    <2>1. /\ call' \in [Clients -> Call]
          /\ \A d \in Clients : AttemptIsDone(call'[d], executed'[d])
          BY <1>1, <1>7, AttemptStep
    <2>2. KeysCount'
          BY <1>1, <1>7 DEF KeysCount
    <2>. QED BY <1>1, <1>7, <2>1, <2>2 DEF GatewayInv, GatewayTypeOK
  \* What a call is once it has moved on, or was answered.
  <1>8. ASSUME NEW c \in Clients, NEW s \in {"passed", "forwarded", "acted"},
               NEW k, k = [call[c] EXCEPT !.at = s]
        PROVE  /\ k \in Call /\ k.at = s /\ k.answer = call[c].answer
               /\ k.route = call[c].route /\ (k.token <=> call[c].token)
    <2>1. k \in Call /\ k.at = s /\ k.answer = call[c].answer /\ k.route = call[c].route
          BY <1>3, <1>8 DEF Call
    <2>2. k.token <=> call[c].token
          BY <1>3, <1>8 DEF Call
    <2>. QED BY <2>1, <2>2
  <1>. DEFINE Answered(c, a) == [call[c] EXCEPT !.at = "idle", !.answer = a]
  <1>9. ASSUME NEW c \in Clients, NEW a \in {"none", "429", "401", "502", "ok"}
        PROVE  /\ Answered(c, a) \in Call /\ Answered(c, a).at = "idle"
               /\ Answered(c, a).answer = a /\ Answered(c, a).route = call[c].route
               /\ (Answered(c, a).token <=> call[c].token)
    <2>1. /\ Answered(c, a) \in Call /\ Answered(c, a).at = "idle"
          /\ Answered(c, a).answer = a /\ Answered(c, a).route = call[c].route
          BY <1>3 DEF Call
    <2>2. Answered(c, a).token <=> call[c].token
          BY <1>3 DEF Call
    <2>. QED BY <2>1, <2>2
  <1>10. ASSUME NEW c \in Clients, NEW a, Answer(c, a)
         PROVE  call' = [call EXCEPT ![c] = Answered(c, a)]
    <2>1. call' = [call EXCEPT ![c].at = "idle", ![c].answer = a]
          BY <1>10 DEF Answer
    <2>. QED BY <1>1, <1>3, <2>1 DEF Call
  <1>. HIDE DEF Answered
  <1>11. ASSUME NEW c \in Clients, NEW a \in {"none", "429", "401", "502", "ok"}, Answer(c, a),
                executed' = executed, UNCHANGED <<minute, count, ttl, counted>>,
                a = "ok" => executed[c] = 1,
                a \in {"401", "429"} => executed[c] = 0
         PROVE  GatewayInv'
    <2>. PICK k : k = Answered(c, a)
         OBVIOUS
    <2>1. /\ k \in Call /\ k.at = "idle" /\ k.answer = a /\ k.route = call[c].route
          /\ (k.token <=> call[c].token)
          BY <1>9
    <2>3. call' = [call EXCEPT ![c] = k]
          BY <1>10, <1>11
    <2>2. AttemptIsDone(k, executed[c])
          BY <1>1, <1>11, <2>1 DEF AttemptIsDone
    <2>. QED BY <1>7, <1>11, <2>1, <2>2, <2>3
  <1>12. ASSUME NEW c \in Clients, CountRequest(c) PROVE GatewayInv'
    <2>1. PICK m \in 0..MaxMinutes : m = call[c].minute
          BY <1>3
    <2>2. PICK n \in Nat : n = count[m] + 1
          BY <1>1
    <2>3. /\ call[c].at = "keyed" /\ count' = [count EXCEPT ![m] = n]
          /\ UNCHANGED <<minute, executed>>
          BY <1>12, <2>1, <2>2 DEF CountRequest
    <2>4. ttl' \in [0..MaxMinutes -> BOOLEAN]
      <3>1. ttl' = ttl \/ ttl' = [ttl EXCEPT ![m] = TRUE]
            BY <1>12, <2>1 DEF CountRequest
      <3>. QED BY <1>1, <3>1
    <2>5. /\ count' \in [0..MaxMinutes -> Nat] /\ count'[m] = n
          /\ \A i \in 0..MaxMinutes : i # m => count'[i] = count[i]
          BY <1>1, <2>3
    <2>6. executed[c] = 0 /\ call[c].answer = "none"
          BY <1>1, <2>3 DEF AttemptIsDone
    <2>. DEFINE Goal == /\ KeysCount' /\ counted' \in [0..MaxMinutes -> Nat]
                        /\ call' \in [Clients -> Call]
                        /\ \A d \in Clients : AttemptIsDone(call'[d], executed'[d])
    <2>7. ASSUME n > Limit PROVE Goal
      <3>1. Answer(c, "429") /\ counted' = counted
            BY <1>12, <2>1, <2>2, <2>7 DEF CountRequest
      <3>. PICK k : k = Answered(c, "429")
           OBVIOUS
      <3>2. k \in Call /\ k.at = "idle" /\ k.answer = "429" /\ call' = [call EXCEPT ![c] = k]
            BY <1>9, <1>10, <3>1
      <3>3. AttemptIsDone(k, 0)
            BY <3>2 DEF AttemptIsDone
      <3>4. /\ call' \in [Clients -> Call]
            /\ \A d \in Clients : AttemptIsDone(call'[d], executed'[d])
            BY <1>1, <2>3, <2>6, <3>2, <3>3, AttemptStep
      <3>5. KeysCount'
            BY <1>1, <1>2, <2>2, <2>3, <2>5, <3>1 DEF KeysCount
      <3>. QED BY <1>1, <3>1, <3>4, <3>5
    <2>8. ASSUME ~ (n > Limit) PROVE Goal
      <3>. PICK k : k = [call[c] EXCEPT !.at = "passed"]
           OBVIOUS
      <3>1. /\ call' = [call EXCEPT ![c] = k]
            /\ counted' = [counted EXCEPT ![m] = IF m = minute THEN @ + 1 ELSE @]
        <4>1. /\ call' = [call EXCEPT ![c].at = "passed"]
              /\ counted' = [counted EXCEPT ![m] = IF m = minute THEN @ + 1 ELSE @]
              BY <1>12, <2>1, <2>2, <2>8 DEF CountRequest
        <4>. QED BY <4>1
      <3>2. k \in Call /\ k.at = "passed" /\ k.answer = "none"
            BY <1>8, <2>6
      <3>3. AttemptIsDone(k, 0)
            BY <3>2 DEF AttemptIsDone
      <3>4. /\ call' \in [Clients -> Call]
            /\ \A d \in Clients : AttemptIsDone(call'[d], executed'[d])
            BY <1>1, <2>3, <2>6, <3>1, <3>2, <3>3, AttemptStep
      <3>5. /\ counted' \in [0..MaxMinutes -> Nat]
            /\ counted'[m] = IF m = minute THEN counted[m] + 1 ELSE counted[m]
            /\ \A i \in 0..MaxMinutes : i # m => counted'[i] = counted[i]
            BY <1>1, <3>1
      <3>6. counted[m] \in Nat /\ counted[m] <= Limit
            /\ (m >= minute => counted[m] <= count[m]) /\ count[m] \in Nat
            BY <1>1 DEF KeysCount
      <3>7. counted'[m] <= Limit /\ (m >= minute => counted'[m] <= n)
            BY <1>2, <2>2, <2>8, <3>5, <3>6
      <3>8. KeysCount'
            BY <1>1, <2>3, <2>5, <3>5, <3>7 DEF KeysCount
      <3>. QED BY <3>4, <3>5, <3>8
    <2>9. Goal
      <3>. HIDE DEF Goal
      <3>. QED BY <2>7, <2>8
    <2>. QED BY <1>1, <2>3, <2>4, <2>5, <2>9 DEF GatewayInv, GatewayTypeOK
  <1>13. ASSUME NEW c \in Clients, NEW s \in {"passed", "forwarded"},
                call' = [call EXCEPT ![c].at = s], executed' = executed,
                call[c].at \in {"keyed", "passed"},
                s = "forwarded" => call[c].route \in Public \/ call[c].token,
                UNCHANGED <<minute, count, ttl, counted>>
         PROVE  GatewayInv'
    <2>. PICK k : k = [call[c] EXCEPT !.at = s]
         OBVIOUS
    <2>1. /\ k \in Call /\ k.at = s /\ k.answer = call[c].answer /\ k.route = call[c].route
          /\ (k.token <=> call[c].token)
          BY <1>8
    <2>2. call' = [call EXCEPT ![c] = k]
          BY <1>13
    <2>3. AttemptIsDone(k, executed[c])
          BY <1>1, <1>13, <2>1 DEF AttemptIsDone
    <2>. QED BY <1>7, <1>13, <2>1, <2>2, <2>3
  <1>14. ASSUME NEW c \in Clients, RedisAway(c) PROVE GatewayInv'
         BY <1>13, <1>14 DEF RedisAway
  <1>15. ASSUME NEW c \in Clients, Authorize(c) PROVE GatewayInv'
    <2>1. CASE call[c].route \in Public \/ call[c].token
          BY <1>13, <1>15, <2>1 DEF Authorize
    <2>2. CASE ~ (call[c].route \in Public \/ call[c].token)
      <3>1. executed[c] = 0
            BY <1>1, <1>15 DEF Authorize, AttemptIsDone
      <3>2. Answer(c, "401") /\ executed' = executed /\ UNCHANGED <<minute, count, ttl, counted>>
            BY <1>15, <2>2 DEF Authorize
      <3>. QED BY <1>11, <3>1, <3>2
    <2>. QED BY <2>1, <2>2
  <1>16. ASSUME NEW c \in Clients, ServiceActs(c) PROVE GatewayInv'
    <2>. PICK k : k = [call[c] EXCEPT !.at = "acted"]
         OBVIOUS
    <2>1. /\ k \in Call /\ k.at = "acted" /\ k.answer = call[c].answer /\ k.route = call[c].route
          /\ (k.token <=> call[c].token)
          BY <1>8
    <2>2. /\ call' = [call EXCEPT ![c] = k] /\ executed' = [executed EXCEPT ![c] = @ + 1]
          /\ call[c].at = "forwarded" /\ UNCHANGED <<minute, count, ttl, counted>>
          BY <1>16 DEF ServiceActs
    <2>3. executed[c] = 0 /\ AttemptIsDone(k, 1)
          BY <1>1, <2>1, <2>2 DEF AttemptIsDone
    <2>4. /\ executed' \in [Clients -> Nat] /\ executed'[c] = 1
          /\ \A d \in Clients : d # c => executed'[d] = executed[d]
          BY <1>1, <2>2, <2>3
    <2>5. /\ call' \in [Clients -> Call]
          /\ \A d \in Clients : AttemptIsDone(call'[d], executed'[d])
          BY <2>1, <2>2, <2>3, <2>4, AttemptStep
    <2>6. KeysCount'
          BY <1>1, <2>2 DEF KeysCount
    <2>. QED BY <1>1, <2>2, <2>4, <2>5, <2>6 DEF GatewayInv, GatewayTypeOK
  <1>17. ASSUME NEW c \in Clients, ProxyAnswers(c) \/ ProxyFails(c) PROVE GatewayInv'
    <2>1. call[c].at = "acted" => executed[c] = 1
          BY <1>1 DEF AttemptIsDone
    <2>. QED BY <1>11, <1>17, <2>1 DEF ProxyAnswers, ProxyFails
  <1>18. CASE UNCHANGED gatewayVars
         BY <1>1, <1>18 DEF gatewayVars, GatewayInv, GatewayTypeOK, KeysCount
  <1>. QED BY <1>4, <1>5, <1>6, <1>12, <1>14, <1>15, <1>16, <1>17, <1>18 DEF GatewayNext

LEMMA GatewayIsSafe == GatewaySpec => [](GatewayTypeOK /\ MinuteIsLimited /\ ActsOnceIfAllowed)
  <1>1. GatewayInv => GatewayTypeOK /\ MinuteIsLimited /\ ActsOnceIfAllowed
        BY DEF GatewayInv, KeysCount, MinuteIsLimited, ActsOnceIfAllowed, AttemptIsDone
  <1>. QED BY <1>1, GatewayInitially, GatewayStep, PTL DEF GatewaySpec

-----------------------------------------------------------------------------
(* LaunchGate *)

Ask == [step : LaunchStep, tenant : Tenants \cup {NoTenant}, need : Needs \cup {0},
        cost : HoldPrices \cup {0}, unseen : SUBSET Facts, prices : SUBSET HoldPrices,
        most : Nat]
Rental == [tenant : Tenants, need : Needs, hold : HoldPrices, unseen : SUBSET Facts,
           prices : SUBSET HoldPrices, most : Nat]

\* The steps at which a request has passed the gate's checks, those at which the
\* scheduler has seen the listing, and those at which it has seen the balance.
Gated    == {"account", "fetchListing", "fetchBalance", "hold", "insert"}
Informed == {"fetchBalance", "hold", "insert"}
Covered  == {"hold", "insert"}

\* What a request has been shown at each of its steps, and its ghosts know.
HasSeen(q) ==
    /\ q.unseen \cap facts = {}
    /\ q.step # "quiet" => /\ q.tenant \in Tenants /\ q.need \in Needs
                           /\ price \in q.prices /\ purse[q.tenant] <= q.most
    /\ q.step \in {"host"} \cup Gated => q.cost \in q.prices /\ "active" \notin q.unseen
    /\ q.step \in Gated => {"verified", "idle"} \cap q.unseen = {}
    /\ q.step \in Informed => "indexed" \notin q.unseen /\ q.need <= Vram
    /\ q.step \in Covered => q.cost <= q.most

LaunchInv ==
    /\ LaunchTypeOK /\ SeenBeforeLaunch
    /\ \A w \in LaunchWorkers : HasSeen(launch[w])

LEMMA LaunchFacts ==
    ASSUME LaunchTypeOK
    PROVE  /\ \A w \in LaunchWorkers : launch[w] \in Ask
           /\ HoldPrices \subseteq Nat /\ Balances \subseteq Nat /\ price \in HoldPrices
           /\ MaxRented \in Nat /\ MaxEdits \in Nat /\ Len(rented) \in Nat
           /\ rented \in Seq(Rental) /\ launch \in [LaunchWorkers -> Ask]
           /\ NoTenant \notin Tenants /\ edits \in 0..MaxEdits /\ facts \subseteq Facts
           /\ purse \in [Tenants -> Nat] /\ purse \in [Tenants -> Balances]
  <1>1. /\ HoldPrices \subseteq Nat /\ Balances \subseteq Nat /\ MaxRented \in Nat
        /\ MaxEdits \in Nat /\ NoTenant \notin Tenants
        BY LaunchAssumption DEF LaunchAssumption
  <1>2. rented \in Seq(Rental) /\ launch \in [LaunchWorkers -> Ask]
        BY DEF LaunchTypeOK, Rental, Ask
  <1>3. purse \in [Tenants -> Balances] /\ purse \in [Tenants -> Nat]
        BY <1>1 DEF LaunchTypeOK
  <1>. QED BY <1>1, <1>2, <1>3 DEF LaunchTypeOK

LEMMA NoLaunchType ==
    /\ NoLaunch \in Ask /\ HasSeen(NoLaunch) /\ NoLaunch.step = "quiet"
    /\ NoLaunch.tenant = NoTenant
  BY LaunchAssumption DEF NoLaunch, Ask, HasSeen, LaunchStep, Gated, Informed, Covered,
                          LaunchAssumption

\* A request moves on; nothing is inserted.
LEMMA RequestMoves ==
    ASSUME LaunchInv, NEW w \in LaunchWorkers, NEW q \in Ask, HasSeen(q),
           launch' = [launch EXCEPT ![w] = q],
           UNCHANGED <<facts, price, edits, purse, rented>>
    PROVE  LaunchInv'
  <1>1. launch \in [LaunchWorkers -> Ask] /\ LaunchTypeOK
        BY LaunchFacts DEF LaunchInv
  <1>2. /\ launch' \in [LaunchWorkers -> Ask] /\ launch'[w] = q
        /\ \A v \in LaunchWorkers : v # w => launch'[v] = launch[v]
        BY <1>1
  <1>3. ASSUME NEW v \in LaunchWorkers PROVE HasSeen(launch[v])'
    <2>1. HasSeen(launch'[v])
          BY <1>2 DEF LaunchInv
    <2>. QED BY <2>1 DEF HasSeen
  <1>4. SeenBeforeLaunch'
        BY DEF LaunchInv, SeenBeforeLaunch
  <1>5. LaunchTypeOK'
        BY <1>1, <1>2 DEF LaunchTypeOK, Ask
  <1>. QED BY <1>3, <1>4, <1>5 DEF LaunchInv

\* A request is asked: it is shown what holds now.
LEMMA RequestAsked ==
    ASSUME LaunchInv, NEW w \in LaunchWorkers, NEW t \in Tenants, NEW need \in Needs,
           Asks(w, t, need)
    PROVE  LaunchInv'
  <1>. DEFINE q == [step |-> "listing", tenant |-> t, need |-> need, cost |-> 0,
                    unseen |-> Facts \ facts, prices |-> {price}, most |-> purse[t]]
  <1>1. price \in HoldPrices /\ purse[t] \in Nat
        BY LaunchFacts DEF LaunchInv
  <1>2. /\ q \in Ask /\ q.step = "listing" /\ q.tenant = t /\ q.need = need
        /\ q.unseen = Facts \ facts /\ q.prices = {price} /\ q.most = purse[t]
        BY <1>1 DEF Ask, LaunchStep
  <1>3. launch' = [launch EXCEPT ![w] = q] /\ UNCHANGED <<facts, price, edits, purse, rented>>
        BY DEF Asks
  <1>. HIDE DEF q
  <1>4. HasSeen(q)
        BY <1>1, <1>2 DEF HasSeen, Gated, Informed, Covered
  <1>. QED BY <1>2, <1>3, <1>4, RequestMoves

\* A check passes: what holds now is not among what the request has not seen.
LEMMA CheckPasses ==
    ASSUME LaunchInv, NEW w \in LaunchWorkers,
           \/ GateListing(w) \/ GateHost(w) \/ GateAccount(w)
           \/ FetchListing(w) \/ FetchBalance(w) \/ PlaceHold(w)
    PROVE  LaunchInv'
  <1>1. /\ launch[w] \in Ask /\ HasSeen(launch[w]) /\ launch \in [LaunchWorkers -> Ask]
        /\ price \in HoldPrices
        BY LaunchFacts DEF LaunchInv
  <1>. DEFINE Moved(to) == [launch[w] EXCEPT !.step = to]
              Priced(to) == [launch[w] EXCEPT !.step = to, !.cost = price]
  <1>2. ASSUME NEW to \in LaunchStep
        PROVE  /\ Moved(to) \in Ask /\ Moved(to).step = to /\ Moved(to).tenant = launch[w].tenant
               /\ Moved(to).need = launch[w].need /\ Moved(to).cost = launch[w].cost
               /\ Moved(to).unseen = launch[w].unseen
               /\ Moved(to).prices = launch[w].prices /\ Moved(to).most = launch[w].most
               /\ Priced(to) \in Ask /\ Priced(to).step = to /\ Priced(to).tenant = launch[w].tenant
               /\ Priced(to).need = launch[w].need /\ Priced(to).cost = price
               /\ Priced(to).unseen = launch[w].unseen
               /\ Priced(to).prices = launch[w].prices /\ Priced(to).most = launch[w].most
        BY <1>1 DEF Ask
  <1>3. ASSUME NEW from, NEW to, Passes(w, from, to)
        PROVE  launch[w].step = from /\ launch' = [launch EXCEPT ![w] = Moved(to)]
        BY <1>1, <1>3 DEF Passes, Ask
  <1>4. ASSUME NEW from, NEW to, PassesWithCost(w, from, to)
        PROVE  launch[w].step = from /\ launch' = [launch EXCEPT ![w] = Priced(to)]
        BY <1>1, <1>4 DEF PassesWithCost, Ask
  <1>. HIDE DEF Moved, Priced
  <1>5. CASE GateListing(w)
    <2>1. launch[w].step = "listing" /\ launch' = [launch EXCEPT ![w] = Priced("host")]
          BY <1>4, <1>5 DEF GateListing
    <2>2. "active" \in facts /\ UNCHANGED <<facts, price, edits, purse, rented>>
          BY <1>5 DEF GateListing, PassesWithCost
    <2>3. Priced("host") \in Ask /\ HasSeen(Priced("host"))
          BY <1>1, <1>2, <2>1, <2>2 DEF HasSeen, Gated, Informed, Covered, LaunchStep
    <2>. QED BY <2>1, <2>2, <2>3, RequestMoves
  <1>6. CASE GateHost(w)
    <2>1. launch[w].step = "host" /\ launch' = [launch EXCEPT ![w] = Moved("account")]
          BY <1>3, <1>6 DEF GateHost
    <2>2. {"verified", "idle"} \subseteq facts /\ UNCHANGED <<facts, price, edits, purse, rented>>
          BY <1>6 DEF GateHost, Passes
    <2>3. Moved("account") \in Ask /\ HasSeen(Moved("account"))
          BY <1>1, <1>2, <2>1, <2>2 DEF HasSeen, Gated, Informed, Covered, LaunchStep
    <2>. QED BY <2>1, <2>2, <2>3, RequestMoves
  <1>7. CASE GateAccount(w)
    <2>1. launch[w].step = "account" /\ launch' = [launch EXCEPT ![w] = Moved("fetchListing")]
          BY <1>3, <1>7 DEF GateAccount
    <2>2. UNCHANGED <<facts, price, edits, purse, rented>>
          BY <1>7 DEF GateAccount, Passes
    <2>3. Moved("fetchListing") \in Ask /\ HasSeen(Moved("fetchListing"))
          BY <1>1, <1>2, <2>1 DEF HasSeen, Gated, Informed, Covered, LaunchStep
    <2>. QED BY <2>1, <2>2, <2>3, RequestMoves
  <1>8. CASE FetchListing(w)
    <2>1. /\ launch[w].step = "fetchListing"
          /\ launch' = [launch EXCEPT ![w] = Priced("fetchBalance")]
          BY <1>4, <1>8 DEF FetchListing
    <2>2. /\ {"active", "indexed"} \subseteq facts /\ launch[w].need <= Vram
          /\ UNCHANGED <<facts, price, edits, purse, rented>>
          BY <1>8 DEF FetchListing, PassesWithCost
    <2>3. Priced("fetchBalance") \in Ask /\ HasSeen(Priced("fetchBalance"))
          BY <1>1, <1>2, <2>1, <2>2 DEF HasSeen, Gated, Informed, Covered, LaunchStep
    <2>. QED BY <2>1, <2>2, <2>3, RequestMoves
  <1>9. CASE FetchBalance(w)
    <2>1. launch[w].step = "fetchBalance" /\ launch' = [launch EXCEPT ![w] = Moved("hold")]
          BY <1>3, <1>9 DEF FetchBalance
    <2>2. /\ purse[launch[w].tenant] >= launch[w].cost
          /\ UNCHANGED <<facts, price, edits, purse, rented>>
          BY <1>9 DEF FetchBalance, Passes
    <2>3. PICK c \in Nat, p \in Nat, m \in Nat :
             c = launch[w].cost /\ p = purse[launch[w].tenant] /\ m = launch[w].most
      <3>1. launch[w].tenant \in Tenants /\ launch[w].cost \in HoldPrices \cup {0}
            BY <1>1, <2>1 DEF HasSeen, Ask
      <3>. QED BY <1>1, <3>1, LaunchFacts DEF LaunchInv, Ask
    <2>4. c <= m
      <3>1. p <= m
            BY <1>1, <2>1, <2>3 DEF HasSeen
      <3>. QED BY <2>2, <2>3, <3>1
    <2>5. Moved("hold") \in Ask /\ HasSeen(Moved("hold"))
          BY <1>1, <1>2, <2>1, <2>3, <2>4 DEF HasSeen, Gated, Informed, Covered, LaunchStep
    <2>. QED BY <2>1, <2>2, <2>5, RequestMoves
  <1>10. CASE PlaceHold(w)
    <2>1. launch[w].step = "hold" /\ launch' = [launch EXCEPT ![w] = Moved("insert")]
          BY <1>3, <1>10 DEF PlaceHold
    <2>2. UNCHANGED <<facts, price, edits, purse, rented>>
          BY <1>10 DEF PlaceHold, Passes
    <2>3. Moved("insert") \in Ask /\ HasSeen(Moved("insert"))
          BY <1>1, <1>2, <2>1 DEF HasSeen, Gated, Informed, Covered, LaunchStep
    <2>. QED BY <2>1, <2>2, <2>3, RequestMoves
  <1>. QED BY <1>5, <1>6, <1>7, <1>8, <1>9, <1>10

\* The row is of a listing and a host that were seen fit, at a price and a balance that
\* were shown.
LEMMA Inserted ==
    ASSUME LaunchInv, NEW w \in LaunchWorkers, Insert(w)
    PROVE  LaunchInv'
  <1>1. /\ launch[w] \in Ask /\ HasSeen(launch[w]) /\ launch \in [LaunchWorkers -> Ask]
        /\ LaunchTypeOK /\ rented \in Seq(Rental) /\ Len(rented) \in Nat /\ MaxRented \in Nat
        BY LaunchFacts DEF LaunchInv
  <1>2. /\ launch[w].step = "insert" /\ launch' = [launch EXCEPT ![w] = NoLaunch]
        /\ Len(rented) < MaxRented /\ UNCHANGED <<facts, price, edits, purse>>
        BY DEF Insert
  <1>3. /\ launch[w].tenant \in Tenants /\ launch[w].need \in Needs /\ launch[w].need <= Vram
        /\ launch[w].cost \in launch[w].prices /\ launch[w].cost <= launch[w].most
        /\ {"active", "indexed", "verified", "idle"} \cap launch[w].unseen = {}
        BY <1>1, <1>2 DEF HasSeen, Gated, Informed, Covered
  <1>4. /\ launch[w].unseen \in SUBSET Facts /\ launch[w].prices \in SUBSET HoldPrices
        /\ launch[w].most \in Nat
        BY <1>1 DEF Ask
  <1>5. launch[w].unseen = {} /\ launch[w].cost \in HoldPrices
        BY <1>3, <1>4 DEF Facts
  <1>. DEFINE r == [tenant |-> launch[w].tenant, need |-> launch[w].need,
                    hold |-> launch[w].cost, unseen |-> launch[w].unseen,
                    prices |-> launch[w].prices, most |-> launch[w].most]
  <1>6. /\ r \in Rental /\ r.unseen = {} /\ r.need <= Vram
        /\ r.hold \in r.prices /\ r.hold <= r.most
        BY <1>3, <1>4, <1>5 DEF Rental
  <1>7. rented' = Append(rented, r)
        BY DEF Insert
  <1>. HIDE DEF r
  <1>8. /\ rented' \in Seq(Rental) /\ Len(rented') = Len(rented) + 1
        /\ Len(rented') <= MaxRented /\ DOMAIN rented' = DOMAIN rented \cup {Len(rented) + 1}
        /\ \A i \in DOMAIN rented : rented'[i] = rented[i]
        /\ rented'[Len(rented) + 1] = r
        BY <1>1, <1>2, <1>6, <1>7
  <1>9. SeenBeforeLaunch'
        BY <1>6, <1>8 DEF LaunchInv, SeenBeforeLaunch
  <1>10. /\ launch' \in [LaunchWorkers -> Ask]
         /\ \A v \in LaunchWorkers : HasSeen(launch'[v])
         BY <1>1, <1>2, NoLaunchType DEF LaunchInv
  <1>11. \A v \in LaunchWorkers : HasSeen(launch[v])'
         BY <1>2, <1>10 DEF HasSeen
  <1>12. LaunchTypeOK'
         BY <1>1, <1>2, <1>8, <1>10 DEF LaunchTypeOK, Ask, Rental
  <1>. QED BY <1>9, <1>11, <1>12 DEF LaunchInv

\* The other services change what holds, and the ghosts of the requests with it.
LEMMA SurroundingsChange ==
    ASSUME LaunchInv, launch' \in [LaunchWorkers -> Ask],
           facts' \subseteq Facts, price' \in HoldPrices, edits' \in 0..MaxEdits,
           purse' \in [Tenants -> Balances], rented' = rented,
           \A v \in LaunchWorkers : HasSeen(launch[v])'
    PROVE  LaunchInv'
  <1>1. SeenBeforeLaunch'
        BY DEF LaunchInv, SeenBeforeLaunch
  <1>2. LaunchTypeOK'
        BY DEF LaunchInv, LaunchTypeOK, Ask
  <1>. QED BY <1>1, <1>2 DEF LaunchInv

LEMMA FactsTurn ==
    ASSUME LaunchInv, NEW fact \in Facts, Turns(fact)
    PROVE  LaunchInv'
  <1>1. /\ launch \in [LaunchWorkers -> Ask] /\ edits \in 0..MaxEdits /\ MaxEdits \in Nat
        /\ facts \subseteq Facts /\ price \in HoldPrices /\ purse \in [Tenants -> Balances]
        BY LaunchFacts DEF LaunchInv
  <1>2. /\ edits' = edits + 1 /\ edits < MaxEdits /\ facts' \subseteq Facts
        /\ launch' = [v \in LaunchWorkers |-> [launch[v] EXCEPT !.unseen = @ \ facts']]
        /\ UNCHANGED <<price, purse, rented>>
        BY <1>1 DEF Turns, SymDiff
  <1>3. ASSUME NEW v \in LaunchWorkers
        PROVE  /\ launch'[v] \in Ask /\ launch'[v].step = launch[v].step
               /\ launch'[v].tenant = launch[v].tenant /\ launch'[v].need = launch[v].need
               /\ launch'[v].cost = launch[v].cost /\ launch'[v].prices = launch[v].prices
               /\ launch'[v].most = launch[v].most
               /\ launch'[v].unseen = launch[v].unseen \ facts'
    <2>1. launch[v] \in Ask /\ launch'[v] = [launch[v] EXCEPT !.unseen = @ \ facts']
          BY <1>1, <1>2
    <2>. QED BY <2>1 DEF Ask
  <1>4. launch' \in [LaunchWorkers -> Ask]
    <2>1. launch' = [v \in LaunchWorkers |-> launch'[v]]
          BY <1>2
    <2>. QED BY <1>3, <2>1
  <1>5. ASSUME NEW v \in LaunchWorkers PROVE HasSeen(launch[v])'
    <2>1. HasSeen(launch[v])
          BY DEF LaunchInv
    <2>. QED BY <1>2, <1>3, <2>1 DEF HasSeen
  <1>6. edits' \in 0..MaxEdits
        BY <1>1, <1>2
  <1>. QED BY <1>1, <1>2, <1>4, <1>5, <1>6, SurroundingsChange

LEMMA PriceChanges ==
    ASSUME LaunchInv, NEW p \in HoldPrices, Reprices(p)
    PROVE  LaunchInv'
  <1>1. /\ launch \in [LaunchWorkers -> Ask] /\ edits \in 0..MaxEdits /\ MaxEdits \in Nat
        /\ facts \subseteq Facts /\ purse \in [Tenants -> Balances]
        BY LaunchFacts DEF LaunchInv
  <1>2. /\ edits' = edits + 1 /\ edits < MaxEdits /\ price' = p
        /\ launch' = [v \in LaunchWorkers |->
              IF launch[v].step = "quiet" THEN launch[v]
              ELSE [launch[v] EXCEPT !.prices = @ \cup {p}]]
        /\ UNCHANGED <<facts, purse, rented>>
        BY DEF Reprices
  <1>3. ASSUME NEW v \in LaunchWorkers
        PROVE  /\ launch'[v] \in Ask /\ launch'[v].step = launch[v].step
               /\ launch'[v].tenant = launch[v].tenant /\ launch'[v].need = launch[v].need
               /\ launch'[v].cost = launch[v].cost /\ launch'[v].unseen = launch[v].unseen
               /\ launch'[v].most = launch[v].most
               /\ launch[v].prices \subseteq launch'[v].prices
               /\ launch[v].step # "quiet" => p \in launch'[v].prices
    <2>1. launch[v] \in Ask
          BY <1>1
    <2>2. CASE launch[v].step = "quiet"
          BY <1>2, <2>1, <2>2
    <2>3. CASE launch[v].step # "quiet"
      <3>1. launch'[v] = [launch[v] EXCEPT !.prices = @ \cup {p}]
            BY <1>2, <2>3
      <3>. QED BY <2>1, <3>1 DEF Ask
    <2>. QED BY <2>2, <2>3
  <1>4. launch' \in [LaunchWorkers -> Ask]
    <2>1. launch' = [v \in LaunchWorkers |-> launch'[v]]
          BY <1>2
    <2>. QED BY <1>3, <2>1
  <1>5. ASSUME NEW v \in LaunchWorkers PROVE HasSeen(launch[v])'
    <2>1. HasSeen(launch[v])
          BY DEF LaunchInv
    <2>. QED BY <1>2, <1>3, <2>1 DEF HasSeen, Gated, Informed, Covered
  <1>6. edits' \in 0..MaxEdits
        BY <1>1, <1>2
  <1>. QED BY <1>1, <1>2, <1>4, <1>5, <1>6, SurroundingsChange

LEMMA BalanceMoves ==
    ASSUME LaunchInv, NEW t \in Tenants, NEW usd \in Balances, PurseMoves(t, usd)
    PROVE  LaunchInv'
  <1>1. /\ launch \in [LaunchWorkers -> Ask] /\ edits \in 0..MaxEdits /\ MaxEdits \in Nat
        /\ facts \subseteq Facts /\ price \in HoldPrices /\ usd \in Nat
        /\ purse \in [Tenants -> Balances]
        BY LaunchFacts DEF LaunchInv
  <1>2. /\ edits' = edits + 1 /\ edits < MaxEdits /\ purse' = [purse EXCEPT ![t] = usd]
        /\ launch' = [v \in LaunchWorkers |->
              IF launch[v].tenant = t /\ usd > launch[v].most
              THEN [launch[v] EXCEPT !.most = usd] ELSE launch[v]]
        /\ UNCHANGED <<facts, price, rented>>
        BY DEF PurseMoves
  <1>3. ASSUME NEW v \in LaunchWorkers
        PROVE  /\ launch'[v] \in Ask /\ launch'[v].step = launch[v].step
               /\ launch'[v].tenant = launch[v].tenant /\ launch'[v].need = launch[v].need
               /\ launch'[v].cost = launch[v].cost /\ launch'[v].unseen = launch[v].unseen
               /\ launch'[v].prices = launch[v].prices
               /\ launch[v].most \in Nat /\ launch'[v].most \in Nat
               /\ launch[v].most <= launch'[v].most
               /\ launch[v].tenant = t => usd <= launch'[v].most
    <2>1. launch[v] \in Ask /\ launch[v].most \in Nat
          BY <1>1 DEF Ask
    <2>2. CASE launch[v].tenant = t /\ usd > launch[v].most
      <3>1. launch'[v] = [launch[v] EXCEPT !.most = usd]
            BY <1>2, <2>2
      <3>2. /\ launch'[v] \in Ask /\ launch'[v].most = usd /\ launch'[v].step = launch[v].step
            /\ launch'[v].tenant = launch[v].tenant /\ launch'[v].need = launch[v].need
            /\ launch'[v].cost = launch[v].cost /\ launch'[v].unseen = launch[v].unseen
            /\ launch'[v].prices = launch[v].prices
            BY <1>1, <2>1, <3>1 DEF Ask
      <3>. QED BY <1>1, <2>1, <2>2, <3>2
    <2>3. CASE ~ (launch[v].tenant = t /\ usd > launch[v].most)
      <3>1. launch'[v] = launch[v]
            BY <1>2, <2>3
      <3>. QED BY <1>1, <2>1, <2>3, <3>1
    <2>. QED BY <2>2, <2>3
  <1>4. launch' \in [LaunchWorkers -> Ask]
    <2>1. launch' = [v \in LaunchWorkers |-> launch'[v]]
          BY <1>2
    <2>. QED BY <1>3, <2>1
  <1>5. ASSUME NEW v \in LaunchWorkers PROVE HasSeen(launch[v])'
    <2>1. HasSeen(launch[v])
          BY DEF LaunchInv
    <2>2. launch[v].step # "quiet" => purse'[launch[v].tenant] <= launch'[v].most
      <3>. SUFFICES ASSUME launch[v].step # "quiet"
                    PROVE  purse'[launch[v].tenant] <= launch'[v].most
           OBVIOUS
      <3>1. PICK u \in Tenants : u = launch[v].tenant /\ purse[u] <= launch[v].most
            BY <2>1 DEF HasSeen
      <3>2. purse[u] \in Nat
            BY LaunchFacts DEF LaunchInv
      <3>3. CASE u = t
            BY <1>1, <1>2, <1>3, <3>1, <3>3
      <3>4. CASE u # t
        <4>1. purse'[u] = purse[u]
              BY <1>1, <1>2, <3>4
        <4>. QED BY <1>3, <3>1, <3>2, <4>1
      <3>. QED BY <3>3, <3>4
    <2>3. launch[v].step \in Covered => launch[v].cost <= launch'[v].most
      <3>1. launch[v].cost \in Nat
        <4>1. launch[v].cost \in HoldPrices \cup {0}
              BY <1>1 DEF Ask
        <4>. QED BY <4>1, LaunchFacts DEF LaunchInv
      <3>. QED BY <1>3, <2>1, <3>1 DEF HasSeen
    <2>. QED BY <1>2, <1>3, <2>1, <2>2, <2>3 DEF HasSeen
  <1>6. edits' \in 0..MaxEdits /\ purse' \in [Tenants -> Balances]
        BY <1>1, <1>2
  <1>. QED BY <1>1, <1>2, <1>4, <1>5, <1>6, SurroundingsChange

LEMMA LaunchStepSafe == ASSUME LaunchInv, [LaunchNext]_launchVars PROVE LaunchInv'
  <1>1. ASSUME NEW w \in LaunchWorkers, Abandons(w) PROVE LaunchInv'
        BY <1>1, NoLaunchType, RequestMoves DEF Abandons
  <1>2. CASE UNCHANGED launchVars
        BY <1>2 DEF launchVars, LaunchInv, LaunchTypeOK, SeenBeforeLaunch, HasSeen
  <1>. QED BY <1>1, <1>2, RequestAsked, CheckPasses, Inserted, FactsTurn, PriceChanges, BalanceMoves
           DEF LaunchNext

LEMMA LaunchInitially == LaunchInit => LaunchInv
  <1>. SUFFICES ASSUME LaunchInit PROVE LaunchInv
       OBVIOUS
  <1>1. MaxEdits \in Nat /\ MaxRented \in Nat
        BY LaunchAssumption DEF LaunchAssumption
  <1>2. launch \in [LaunchWorkers -> Ask] /\ \A w \in LaunchWorkers : launch[w] = NoLaunch
        BY NoLaunchType DEF LaunchInit
  <1>3. /\ rented = <<>> /\ Len(rented) = 0 /\ DOMAIN rented = {}
        BY DEF LaunchInit
  <1>4. LaunchTypeOK
        BY <1>1, <1>2, <1>3 DEF LaunchInit, LaunchTypeOK, Ask
  <1>5. SeenBeforeLaunch
        BY <1>3 DEF SeenBeforeLaunch
  <1>. QED BY <1>2, <1>4, <1>5, NoLaunchType DEF LaunchInv

LEMMA LaunchIsSafe == LaunchSpec => [](LaunchTypeOK /\ SeenBeforeLaunch)
  <1>1. LaunchInv => LaunchTypeOK /\ SeenBeforeLaunch
        BY DEF LaunchInv
  <1>. QED BY <1>1, LaunchInitially, LaunchStepSafe, PTL DEF LaunchSpec

-----------------------------------------------------------------------------
(* ListingRanker: rounded fractions *)

LEMMA RatioIsFraction ==
    ASSUME NEW part \in Nat, NEW whole \in Nat, whole > 0, part <= whole
    PROVE  /\ Ratio(part, whole) \in Int
           /\ 0 <= Ratio(part, whole) /\ Ratio(part, whole) <= 10000
  <1>1. PICK q : q = Ratio(part, whole)
        OBVIOUS
  <1>2. /\ q \in Int
        /\ (2 * whole) * q <= 20000 * part + whole
        /\ 20000 * part + whole < (2 * whole) * (q + 1)
        BY <1>1, DivBounds DEF Ratio
  <1>3. q >= 0
    <2>. SUFFICES ASSUME q + 1 <= 0 PROVE FALSE
         BY <1>2
    <2>1. (2 * whole) * (q + 1) <= (2 * whole) * 0
          BY <1>2, MulMono
    <2>. QED BY <1>2, <2>1
  <1>4. q <= 10000
    <2>. SUFFICES ASSUME 10001 <= q PROVE FALSE
         BY <1>2
    <2>1. (2 * whole) * 10001 <= (2 * whole) * q
          BY <1>2, MulMono
    <2>. QED BY <1>2, <2>1
  <1>. QED BY <1>1, <1>2, <1>3, <1>4

LEMMA RatioMono ==
    ASSUME NEW p1 \in Nat, NEW p2 \in Nat, NEW whole \in Nat, whole > 0, p1 <= p2
    PROVE  Ratio(p1, whole) <= Ratio(p2, whole)
  <1>1. PICK q1 : q1 = Ratio(p1, whole)
        OBVIOUS
  <1>2. PICK q2 : q2 = Ratio(p2, whole)
        OBVIOUS
  <1>3. q1 \in Int /\ (2 * whole) * q1 <= 20000 * p1 + whole
        BY <1>1, DivBounds DEF Ratio
  <1>4. q2 \in Int /\ 20000 * p2 + whole < (2 * whole) * (q2 + 1)
        BY <1>2, DivBounds DEF Ratio
  <1>5. q1 <= q2
    <2>. SUFFICES ASSUME q2 + 1 <= q1 PROVE FALSE
         BY <1>3, <1>4
    <2>1. (2 * whole) * (q2 + 1) <= (2 * whole) * q1
          BY <1>3, <1>4, MulMono
    <2>. QED BY <1>3, <1>4, <2>1
  <1>. QED BY <1>1, <1>2, <1>5

\* Three tenths of the whole score no less than a missing benchmark.
LEMMA RatioOfThreeTenths ==
    ASSUME NEW part \in Nat, NEW whole \in Nat, whole > 0, 10 * part >= 3 * whole
    PROVE  Ratio(part, whole) >= Missing
  <1>1. PICK q : q = Ratio(part, whole)
        OBVIOUS
  <1>2. q \in Int /\ 20000 * part + whole < (2 * whole) * (q + 1)
        BY <1>1, DivBounds DEF Ratio
  <1>3. q >= 3000
    <2>. SUFFICES ASSUME q + 1 <= 3000 PROVE FALSE
         BY <1>2
    <2>1. (2 * whole) * (q + 1) <= (2 * whole) * 3000
          BY <1>2, MulMono
    <2>. QED BY <1>2, <2>1
  <1>. QED BY <1>1, <1>3 DEF Missing

-----------------------------------------------------------------------------
(* The candidates of a request *)

\* Scores stay opaque where they are only compared.
LEMMA ScoreIs == \A x \in Int : x \in Score <=> 0 <= x /\ x <= 10000
  BY DEF Score

LEMMA ScoresAreOrdered == \A x \in Score : x \in Int /\ x <= x
  BY DEF Score

AreCandidates(c) ==
    IsFiniteSet(DOMAIN c) /\ DOMAIN c \subseteq Nat /\ c \in [DOMAIN c -> Offers]

LEMMA UpAlike == ASSUME NEW x, NEW y, x.up = y.up PROVE UpScore(x) = UpScore(y)
  BY SMT DEF UpScore

LEMMA ScoreRange == \A n \in Score : n \in Int /\ 0 <= n /\ n <= 10000
  BY ONLY DEF Score

LEMMA OfferType ==
    ASSUME NEW o \in Offers
    PROVE  /\ o.price \in Nat /\ o.reputation \in Score
           /\ o.bench # NoBench => o.bench \in Nat
           /\ UpScore(o) \in Score
  <1>1. /\ o.price \in Nat /\ o.reputation \in Score
        /\ o.bench \in {NoBench} \cup Nat
        BY RankerAssumption
  <1>2. UpScore(o) \in {0, 10000}
        BY DEF UpScore
  <1>3. 0 \in Score /\ 10000 \in Score
        BY ONLY DEF Score
  <1>. QED BY <1>1, <1>2, <1>3

LEMMA PriceRange ==
    ASSUME NEW c, AreCandidates(c), NEW i \in DOMAIN c
    PROVE  /\ Min(Prices(c)) \in Nat /\ Max(Prices(c)) \in Nat
           /\ Min(Prices(c)) <= c[i].price /\ c[i].price <= Max(Prices(c))
  <1>1. \A j \in DOMAIN c : c[j].price \in Nat
    <2>1. \A j \in DOMAIN c : c[j] \in Offers
          BY DEF AreCandidates
    <2>. QED BY <2>1, OfferType
  <1>2. Prices(c) \subseteq Nat /\ c[i].price \in Prices(c)
        BY <1>1 DEF Prices
  <1>3. IsFiniteSet(Prices(c))
    <2>1. IsFiniteSet(DOMAIN c)
          BY DEF AreCandidates
    <2>2. PICK f : f = [j \in DOMAIN c |-> c[j].price]
          OBVIOUS
    <2>3. IsFiniteSet({f[j] : j \in DOMAIN c})
      <3>1. f \in [DOMAIN c -> Nat]
            BY <1>1, <2>2
      <3>. QED BY <2>1, <3>1, FiniteImage
    <2>4. Prices(c) = {f[j] : j \in DOMAIN c}
          BY <2>2 DEF Prices
    <2>. QED BY <2>3, <2>4
  <1>4. Prices(c) \subseteq Int /\ Prices(c) # {}
        BY <1>2
  <1>5. /\ Max(Prices(c)) \in Prices(c) /\ \A y \in Prices(c) : y <= Max(Prices(c))
        /\ Min(Prices(c)) \in Prices(c) /\ \A y \in Prices(c) : y >= Min(Prices(c))
        BY <1>3, <1>4, MaxOf, MinOf
  <1>. QED BY <1>2, <1>5

LEMMA BenchRange ==
    ASSUME NEW c, AreCandidates(c), NEW i \in DOMAIN c
    PROVE  /\ Min(Benches(c)) \in Nat /\ Max(Benches(c)) \in Nat
           /\ c[i].bench # NoBench
              => Min(Benches(c)) <= c[i].bench /\ c[i].bench <= Max(Benches(c))
           /\ c[i].bench = NoBench => Min(Benches(c)) = 0
  <1>. DEFINE B(j) == IF c[j].bench = NoBench THEN 0 ELSE c[j].bench
  <1>1. \A j \in DOMAIN c : B(j) \in Nat
    <2>1. \A j \in DOMAIN c : c[j] \in Offers
          BY DEF AreCandidates
    <2>2. \A j \in DOMAIN c : c[j].bench # NoBench => c[j].bench \in Nat
          BY <2>1, OfferType
    <2>. QED BY <2>2
  <1>2. Benches(c) = {B(j) : j \in DOMAIN c}
        BY DEF Benches
  <1>3. IsFiniteSet(Benches(c)) /\ Benches(c) \subseteq Nat /\ B(i) \in Benches(c)
    <2>1. IsFiniteSet(DOMAIN c)
          BY DEF AreCandidates
    <2>. HIDE DEF B
    <2>2. PICK f : f = [j \in DOMAIN c |-> B(j)]
          OBVIOUS
    <2>3. IsFiniteSet({f[j] : j \in DOMAIN c})
      <3>1. f \in [DOMAIN c -> Nat]
            BY <1>1, <2>2
      <3>. QED BY <2>1, <3>1, FiniteImage
    <2>4. Benches(c) = {f[j] : j \in DOMAIN c}
          BY <1>2, <2>2
    <2>. QED BY <1>1, <1>2, <2>3, <2>4
  <1>4. Benches(c) \subseteq Int /\ Benches(c) # {}
        BY <1>3
  <1>5. /\ Max(Benches(c)) \in Benches(c) /\ \A y \in Benches(c) : y <= Max(Benches(c))
        /\ Min(Benches(c)) \in Benches(c) /\ \A y \in Benches(c) : y >= Min(Benches(c))
        BY <1>3, <1>4, MaxOf, MinOf
  <1>6. /\ Min(Benches(c)) \in Nat /\ Max(Benches(c)) \in Nat
        /\ Min(Benches(c)) <= B(i) /\ B(i) <= Max(Benches(c))
    <2>. HIDE DEF B
    <2>. QED BY <1>3, <1>5
  <1>. QED BY <1>6

LEMMA PriceScoreIs ==
    ASSUME NEW c, AreCandidates(c), NEW i \in DOMAIN c
    PROVE  PriceScore(c, c[i]) \in Score
  <1>1. PICK low, high, p :
           low = Min(Prices(c)) /\ high = Max(Prices(c)) /\ p = c[i].price
        OBVIOUS
  <1>2. low \in Nat /\ high \in Nat /\ p \in Nat /\ low <= p /\ p <= high
    <2>1. c[i] \in Offers
          BY DEF AreCandidates
    <2>. QED BY <1>1, <2>1, PriceRange, OfferType
  <1>3. CASE high = low
        BY <1>1, <1>3 DEF PriceScore, Score
  <1>4. CASE high # low
    <2>1. /\ p - low \in Nat /\ high - low \in Nat /\ high - low > 0 /\ p - low <= high - low
          BY <1>2, <1>4
    <2>2. PICK x, a, b : x = Ratio(a, b) /\ a = p - low /\ b = high - low
          OBVIOUS
    <2>3. x \in 0..10000
      <3>1. a \in Nat /\ b \in Nat /\ b > 0 /\ a <= b
            BY <2>1, <2>2
      <3>2. x \in Int /\ 0 <= x /\ x <= 10000
            BY <2>2, <3>1, RatioIsFraction
      <3>. QED BY ONLY SMTT(20), <3>2
    <2>4. PriceScore(c, c[i]) = 10000 - x
          BY <1>1, <1>4, <2>2 DEF PriceScore
    <2>. QED BY SMTT(30), <2>3, <2>4 DEF Score
  <1>. QED BY <1>3, <1>4

LEMMA CheaperScoresMore ==
    ASSUME NEW c, AreCandidates(c), NEW i \in DOMAIN c, NEW j \in DOMAIN c,
           c[i].price <= c[j].price
    PROVE  PriceScore(c, c[i]) >= PriceScore(c, c[j])
  <1>1. PICK low, high, p, q :
           low = Min(Prices(c)) /\ high = Max(Prices(c)) /\ p = c[i].price /\ q = c[j].price
        OBVIOUS
  <1>2. /\ low \in Nat /\ high \in Nat /\ p \in Nat /\ low <= p /\ p <= high
        /\ q \in Nat /\ low <= q /\ q <= high /\ p <= q
    <2>1. c[i] \in Offers /\ c[j] \in Offers
          BY DEF AreCandidates
    <2>. QED BY <1>1, <2>1, PriceRange, OfferType
  <1>3. CASE high = low
        BY <1>1, <1>3 DEF PriceScore
  <1>4. CASE high # low
    <2>1. /\ p - low \in Nat /\ high - low \in Nat /\ high - low > 0 /\ p - low <= high - low
          /\ q - low \in Nat /\ q - low <= high - low /\ p - low <= q - low
          BY <1>2, <1>4
    <2>2. PICK x, y, a, b, d :
             /\ x = Ratio(a, d) /\ y = Ratio(b, d)
             /\ a = p - low /\ b = q - low /\ d = high - low
          OBVIOUS
    <2>3. x \in Int /\ y \in Int /\ x <= y
      <3>1. /\ a \in Nat /\ b \in Nat /\ d \in Nat /\ d > 0
            /\ a <= d /\ b <= d /\ a <= b
            BY <2>1, <2>2
      <3>. QED BY <2>2, <3>1, RatioIsFraction, RatioMono
    <2>4. PriceScore(c, c[i]) = 10000 - x /\ PriceScore(c, c[j]) = 10000 - y
          BY <1>1, <1>4, <2>2 DEF PriceScore
    <2>. QED BY <2>3, <2>4
  <1>. QED BY <1>3, <1>4

LEMMA BenchScoreIs ==
    ASSUME NEW c, AreCandidates(c), NEW i \in DOMAIN c
    PROVE  BenchScore(c, c[i]) \in Score
  <1>1. PICK low, high, p :
           low = Min(Benches(c)) /\ high = Max(Benches(c)) /\ p = c[i].bench
        OBVIOUS
  <1>2. CASE p = NoBench
        BY <1>1, <1>2 DEF BenchScore, Missing, Score
  <1>3. CASE p # NoBench
    <2>1. low \in Nat /\ high \in Nat /\ p \in Nat /\ low <= p /\ p <= high
      <3>1. c[i] \in Offers
            BY DEF AreCandidates
      <3>. QED BY <1>1, <1>3, <3>1, BenchRange, OfferType
    <2>2. CASE high = low
          BY <1>1, <1>3, <2>2 DEF BenchScore, Score
    <2>3. CASE high # low
      <3>1. /\ p - low \in Nat /\ high - low \in Nat /\ high - low > 0
            /\ p - low <= high - low
            BY <2>1, <2>3
      <3>2. PICK x, a, b : x = Ratio(a, b) /\ a = p - low /\ b = high - low
            OBVIOUS
      <3>3. x \in 0..10000
        <4>1. a \in Nat /\ b \in Nat /\ b > 0 /\ a <= b
              BY <3>1, <3>2
        <4>2. x \in Int /\ 0 <= x /\ x <= 10000
              BY <3>2, <4>1, RatioIsFraction
        <4>. QED BY SMTT(30), <4>2
      <3>4. BenchScore(c, c[i]) = x
            BY <1>1, <1>3, <2>3, <3>2 DEF BenchScore
      <3>. QED BY <3>3, <3>4 DEF Score
    <2>. QED BY <2>2, <2>3
  <1>. QED BY <1>2, <1>3

LEMMA FasterScoresMore ==
    ASSUME NEW c, AreCandidates(c), NEW i \in DOMAIN c, NEW j \in DOMAIN c,
           c[i].bench # NoBench, c[j].bench # NoBench, c[i].bench >= c[j].bench
    PROVE  BenchScore(c, c[i]) >= BenchScore(c, c[j])
  <1>1. PICK low, high, p, q :
           low = Min(Benches(c)) /\ high = Max(Benches(c)) /\ p = c[i].bench /\ q = c[j].bench
        OBVIOUS
  <1>2. /\ low \in Nat /\ high \in Nat /\ p \in Nat /\ low <= p /\ p <= high
        /\ q \in Nat /\ low <= q /\ q <= high /\ p >= q
    <2>1. c[i] \in Offers /\ c[j] \in Offers
          BY DEF AreCandidates
    <2>. QED BY <1>1, <2>1, BenchRange, OfferType
  <1>3. CASE high = low
        BY <1>1, <1>3 DEF BenchScore
  <1>4. CASE high # low
    <2>1. /\ p - low \in Nat /\ high - low \in Nat /\ high - low > 0 /\ p - low <= high - low
          /\ q - low \in Nat /\ q - low <= high - low /\ q - low <= p - low
          BY <1>2, <1>4
    <2>2. PICK x, y, a, b, d :
             /\ x = Ratio(a, d) /\ y = Ratio(b, d)
             /\ a = p - low /\ b = q - low /\ d = high - low
          OBVIOUS
    <2>3. x \in Int /\ y \in Int /\ y <= x
      <3>1. /\ a \in Nat /\ b \in Nat /\ d \in Nat /\ d > 0
            /\ a <= d /\ b <= d /\ b <= a
            BY <2>1, <2>2
      <3>. QED BY <2>2, <3>1, RatioIsFraction, RatioMono
    <2>4. BenchScore(c, c[i]) = x /\ BenchScore(c, c[j]) = y
          BY <1>1, <1>4, <2>2 DEF BenchScore
    <2>. QED BY <2>3, <2>4
  <1>. QED BY <1>3, <1>4

\* A missing benchmark scores no more than three tenths of the best one.
LEMMA MissingScoresLittle ==
    ASSUME NEW c, AreCandidates(c), NEW i \in DOMAIN c, NEW j \in DOMAIN c,
           c[i].bench = NoBench, c[j].bench # NoBench,
           10 * c[j].bench >= 3 * Max(Benches(c))
    PROVE  BenchScore(c, c[i]) <= BenchScore(c, c[j])
  <1>1. PICK high, q : high = Max(Benches(c)) /\ q = c[j].bench
        OBVIOUS
  <1>2. Min(Benches(c)) = 0 /\ BenchScore(c, c[i]) = 3000
        BY BenchRange DEF BenchScore, Missing
  <1>3. high \in Nat /\ q \in Nat /\ q <= high /\ 10 * q >= 3 * high
    <2>1. c[j] \in Offers
          BY DEF AreCandidates
    <2>. QED BY <1>1, <2>1, BenchRange, OfferType
  <1>4. CASE high = 0
        BY <1>1, <1>2, <1>4 DEF BenchScore
  <1>5. CASE high # 0
    <2>1. high > 0 /\ q - 0 = q /\ high - 0 = high
          BY <1>3, <1>5
    <2>2. Ratio(q, high) >= Missing
          BY <1>3, <2>1, RatioOfThreeTenths
    <2>3. BenchScore(c, c[j]) = Ratio(q, high)
          BY <1>1, <1>2, <1>5, <2>1 DEF BenchScore
    <2>. QED BY <1>2, <2>2, <2>3 DEF Missing
  <1>. QED BY <1>4, <1>5

-----------------------------------------------------------------------------
(* The composite score *)

LEMMA WeightsAre ==
    ASSUME NEW goal
    PROVE  /\ Weights(goal) \in [price: Nat, bench: Nat, up: Nat, reputation: Nat]
           /\ Weights(goal).price + Weights(goal).bench
                + Weights(goal).up + Weights(goal).reputation = 100
  <1>1. CASE goal = "fastest"
        BY <1>1, SMT DEF Weights
  <1>2. CASE goal = "cheapest"
        BY <1>2, SMT DEF Weights
  <1>3. CASE goal # "fastest" /\ goal # "cheapest"
        BY <1>3, SMT DEF Weights
  <1>. QED BY <1>1, <1>2, <1>3

Weighted(w, p1, p2, p3, p4) ==
    w.price * p1 + w.bench * p2 + w.up * p3 + w.reputation * p4

LEMMA WeightedScore ==
    ASSUME NEW goal,
           NEW p1 \in Score, NEW p2 \in Score, NEW p3 \in Score, NEW p4 \in Score
    PROVE  /\ Weighted(Weights(goal), p1, p2, p3, p4) \in Nat
           /\ Weighted(Weights(goal), p1, p2, p3, p4) <= 1000000
  <1>1. ASSUME NEW w \in Nat, NEW p \in Score
        PROVE  w * p \in Int /\ 0 <= w * p /\ w * p <= w * 10000
    <2>1. p \in Int /\ 0 <= p /\ p <= 10000
          BY ScoreRange
    <2>2. w * p <= w * 10000 /\ w * 0 <= w * p /\ w * p \in Int
          BY <2>1, MulMono
    <2>. QED BY <2>2
  <1>2. PICK w1, w2, w3, w4 :
           /\ w1 = Weights(goal).price /\ w2 = Weights(goal).bench
           /\ w3 = Weights(goal).up /\ w4 = Weights(goal).reputation
        OBVIOUS
  <1>3. /\ w1 \in Nat /\ w2 \in Nat /\ w3 \in Nat /\ w4 \in Nat
        /\ w1 + w2 + w3 + w4 = 100
        BY <1>2, WeightsAre
  <1>4. PICK a1, a2, a3, a4 : a1 = w1 * p1 /\ a2 = w2 * p2 /\ a3 = w3 * p3 /\ a4 = w4 * p4
        OBVIOUS
  <1>5. /\ a1 \in Int /\ 0 <= a1 /\ a1 <= w1 * 10000
        /\ a2 \in Int /\ 0 <= a2 /\ a2 <= w2 * 10000
        /\ a3 \in Int /\ 0 <= a3 /\ a3 <= w3 * 10000
        /\ a4 \in Int /\ 0 <= a4 /\ a4 <= w4 * 10000
        BY <1>1, <1>3, <1>4
  <1>6. Weighted(Weights(goal), p1, p2, p3, p4) = a1 + a2 + a3 + a4
        BY <1>2, <1>4 DEF Weighted
  <1>. QED BY <1>3, <1>5, <1>6

LEMMA CompositeIs ==
    ASSUME NEW c, AreCandidates(c), NEW i \in DOMAIN c, NEW goal
    PROVE  Composite(c, c[i], goal) \in Score
  <1>1. PICK t :
           t = Weighted(Weights(goal), PriceScore(c, c[i]), BenchScore(c, c[i]),
                        UpScore(c[i]), c[i].reputation)
        OBVIOUS
  <1>2. c[i] \in Offers
        BY DEF AreCandidates
  <1>3. t \in Nat /\ t <= 1000000
        BY <1>1, <1>2, PriceScoreIs, BenchScoreIs, OfferType, WeightedScore
  <1>4. Composite(c, c[i], goal) = (t + 50) \div 100
        BY <1>1 DEF Composite, Weighted
  <1>5. (t + 50) \div 100 \in Int /\ 0 <= (t + 50) \div 100 /\ (t + 50) \div 100 <= 10000
        BY <1>3
  <1>. QED BY <1>4, <1>5, ScoreIs

\* With three scores no less and the reputation no less, the composite is no less.
LEMMA CompositeMono ==
    ASSUME NEW c, AreCandidates(c), NEW i \in DOMAIN c, NEW j \in DOMAIN c, NEW goal,
           PriceScore(c, c[i]) <= PriceScore(c, c[j]),
           BenchScore(c, c[i]) <= BenchScore(c, c[j]),
           UpScore(c[i]) <= UpScore(c[j]), c[i].reputation <= c[j].reputation
    PROVE  Composite(c, c[i], goal) <= Composite(c, c[j], goal)
  <1>1. PICK w, p1, p2, p3, p4, q1, q2, q3, q4 :
           /\ w = Weights(goal) /\ p1 = PriceScore(c, c[i]) /\ p2 = BenchScore(c, c[i])
           /\ p3 = UpScore(c[i]) /\ p4 = c[i].reputation
           /\ q1 = PriceScore(c, c[j]) /\ q2 = BenchScore(c, c[j])
           /\ q3 = UpScore(c[j]) /\ q4 = c[j].reputation
        OBVIOUS
  <1>2. c[i] \in Offers /\ c[j] \in Offers
        BY DEF AreCandidates
  <1>3. /\ p1 \in Score /\ p2 \in Score
        /\ q1 \in Score /\ q2 \in Score
        BY <1>1, PriceScoreIs, BenchScoreIs
  <1>4. /\ p3 \in Score /\ p4 \in Score
        /\ q3 \in Score /\ q4 \in Score
        BY <1>1, <1>2, OfferType
  <1>5. /\ w.price \in Nat /\ w.bench \in Nat /\ w.up \in Nat /\ w.reputation \in Nat
        BY <1>1, WeightsAre
  <1>6. PICK t, u :
           /\ t = w.price * p1 + w.bench * p2 + w.up * p3 + w.reputation * p4
           /\ u = w.price * q1 + w.bench * q2 + w.up * q3 + w.reputation * q4
        OBVIOUS
  <1>7. t \in Int /\ u \in Int /\ t <= u
    <2>1. p1 <= q1 /\ p2 <= q2 /\ p3 <= q3 /\ p4 <= q4
          BY <1>1
    <2>2. /\ w.price * p1 \in Int /\ w.price * q1 \in Int /\ w.price * p1 <= w.price * q1
          /\ w.bench * p2 \in Int /\ w.bench * q2 \in Int /\ w.bench * p2 <= w.bench * q2
          /\ w.up * p3 \in Int /\ w.up * q3 \in Int /\ w.up * p3 <= w.up * q3
          /\ w.reputation * p4 \in Int /\ w.reputation * q4 \in Int
          /\ w.reputation * p4 <= w.reputation * q4
      <3>1. /\ p1 \in Int /\ q1 \in Int /\ p2 \in Int /\ q2 \in Int
            /\ p3 \in Int /\ q3 \in Int /\ p4 \in Int /\ q4 \in Int
            BY <1>3, <1>4, ScoreRange
      <3>. QED BY <1>5, <2>1, <3>1, MulMono
    <2>. QED BY <1>6, <2>2
  <1>8. /\ Composite(c, c[i], goal) = (t + 50) \div 100
        /\ Composite(c, c[j], goal) = (u + 50) \div 100
        BY <1>1, <1>6 DEF Composite
  <1>. QED BY <1>7, <1>8

-----------------------------------------------------------------------------
(* Ranks *)

LEMMA RankOrder ==
    ASSUME NEW c, AreCandidates(c), NEW i \in DOMAIN c, NEW j \in DOMAIN c, NEW goal,
           \/ Composite(c, c[i], goal) > Composite(c, c[j], goal)
           \/ Composite(c, c[i], goal) = Composite(c, c[j], goal) /\ i <= j
    PROVE  Ranked(c, goal)[i] <= Ranked(c, goal)[j]
  <1>. DEFINE F(n) == {k \in DOMAIN c : Before(c, goal, k, n)}
  <1>1. F(i) \subseteq F(j)
    <2>. SUFFICES ASSUME NEW k \in DOMAIN c, Before(c, goal, k, i) PROVE Before(c, goal, k, j)
         OBVIOUS
    <2>1. PICK x, y, z :
             /\ x = Composite(c, c[i], goal) /\ y = Composite(c, c[j], goal)
             /\ z = Composite(c, c[k], goal)
          OBVIOUS
    <2>2. x \in Score /\ y \in Score /\ z \in Score
          BY <2>1, CompositeIs
    <2>3. i \in Nat /\ j \in Nat /\ k \in Nat
          BY DEF AreCandidates
    <2>4. z > x \/ (z = x /\ k < i)
          BY <2>1 DEF Before
    <2>5. x > y \/ (x = y /\ i <= j)
          BY <2>1
    <2>6. z > y \/ (z = y /\ k < j)
          BY ONLY SMTT(30), <2>2, <2>3, <2>4, <2>5 DEF Score
    <2>. QED BY <2>1, <2>6 DEF Before
  <1>2. IsFiniteSet(F(j)) /\ IsFiniteSet(F(i))
    <2>1. IsFiniteSet(DOMAIN c)
          BY DEF AreCandidates
    <2>. QED BY <2>1, FS_Subset
  <1>3. PICK a, b : a = Cardinality(F(i)) /\ b = Cardinality(F(j))
        OBVIOUS
  <1>4. a \in Nat /\ b \in Nat /\ a <= b
    <2>. HIDE DEF F
    <2>. QED BY <1>1, <1>2, <1>3, FS_Subset, FS_CardinalityType
  <1>5. Ranked(c, goal)[i] = 1 + a /\ Ranked(c, goal)[j] = 1 + b
        BY <1>3 DEF Ranked
  <1>. QED BY <1>4, <1>5

-----------------------------------------------------------------------------
(* ListingRanker: the answers *)

\* An answer ranks and scores some candidates for some goal.
IsAnswer(a) ==
    \E c, goal : /\ AreCandidates(c)
                 /\ a.candidates = c /\ a.rank = Ranked(c, goal)
                 /\ a.score = [i \in DOMAIN c |-> Composite(c, c[i], goal)]

RankerInv ==
    /\ offers \in Seq(Offers) /\ Len(offers) <= MaxOffers
    /\ answer = Unasked \/ IsAnswer(answer)

LEMMA RankerInitInv == RankerInit => RankerInv
  <1>. SUFFICES ASSUME RankerInit PROVE RankerInv
       OBVIOUS
  <1>1. offers = <<>> /\ answer = Unasked
        BY DEF RankerInit
  <1>2. offers \in Seq(Offers) /\ Len(offers) = 0
        BY <1>1
  <1>. QED BY <1>1, <1>2, RankerAssumption DEF RankerInv

LEMMA AffordableAre ==
    ASSUME NEW budget, offers \in Seq(Offers)
    PROVE  AreCandidates(Affordable(budget))
  <1>. DEFINE D == {i \in DOMAIN offers : offers[i].price <= budget}
  <1>1. Affordable(budget) = [i \in D |-> offers[i]]
        BY DEF Affordable, Restrict
  <1>2. DOMAIN offers = 1..Len(offers) /\ Len(offers) \in Nat
        /\ \A i \in DOMAIN offers : offers[i] \in Offers
        OBVIOUS
  <1>3. IsFiniteSet(1..Len(offers))
        BY <1>2, FS_Interval
  <1>4. IsFiniteSet(D) /\ D \subseteq Nat
    <2>1. D \subseteq 1..Len(offers)
          BY <1>2
    <2>2. IsFiniteSet(D)
      <3>. HIDE DEF D
      <3>. QED BY <1>3, <2>1, FS_Subset
    <2>. QED BY <1>2, <2>1, <2>2
  <1>5. /\ DOMAIN Affordable(budget) = D
        /\ Affordable(budget) \in [D -> Offers]
        BY <1>1, <1>2
  <1>. HIDE DEF D
  <1>. QED BY <1>4, <1>5 DEF AreCandidates

LEMMA RankerStep == ASSUME RankerInv, [RankerNext]_rankerVars PROVE RankerInv'
  <1>1. /\ offers \in Seq(Offers) /\ Len(offers) <= MaxOffers
        /\ answer = Unasked \/ IsAnswer(answer)
        BY DEF RankerInv
  <1>2. ASSUME NEW o \in Offers, ListingFound(o) PROVE RankerInv'
    <2>1. /\ offers' = Append(offers, o) /\ answer' = answer /\ answer = Unasked
          /\ Len(offers) < MaxOffers
          BY <1>2 DEF ListingFound
    <2>2. offers' \in Seq(Offers) /\ Len(offers') = Len(offers) + 1
          BY <1>1, <2>1
    <2>3. Len(offers') <= MaxOffers
      <3>1. Len(offers) \in Nat /\ MaxOffers \in Nat
            BY <1>1, RankerAssumption
      <3>. QED BY <2>1, <2>2, <3>1
    <2>. QED BY <2>1, <2>2, <2>3 DEF RankerInv
  <1>3. ASSUME NEW goal \in Goals, NEW budget \in Budgets, Recommend(goal, budget)
        PROVE  RankerInv'
    <2>1. PICK c : c = Affordable(budget)
          OBVIOUS
    <2>2. offers' = offers
          BY <1>3 DEF Recommend
    <2>3. /\ answer'.candidates = c /\ answer'.rank = Ranked(c, goal)
          /\ answer'.score = [i \in DOMAIN c |-> Composite(c, c[i], goal)]
          BY <1>3, <2>1 DEF Recommend
    <2>4. AreCandidates(c)
          BY <1>1, <2>1, AffordableAre
    <2>5. IsAnswer(answer)'
          BY <2>3, <2>4 DEF IsAnswer
    <2>. QED BY <1>1, <2>2, <2>5 DEF RankerInv
  <1>4. CASE UNCHANGED rankerVars
    <2>1. offers' = offers /\ answer' = answer
          BY <1>4 DEF rankerVars
    <2>. QED BY <1>1, <2>1 DEF RankerInv
  <1>. QED BY <1>2, <1>3, <1>4 DEF RankerNext

LEMMA RankerInvHolds == RankerSpec => []RankerInv
  <1>. QED BY RankerInitInv, RankerStep, PTL DEF RankerSpec

LEMMA AnswerIs ==
    ASSUME RankerInv, Asked
    PROVE  \E c, goal :
              /\ AreCandidates(c) /\ answer.candidates = c
              /\ \A i \in DOMAIN c : answer.score[i] = Composite(c, c[i], goal)
              /\ \A i \in DOMAIN c : answer.rank[i] = Ranked(c, goal)[i]
  BY DEF RankerInv, Asked, IsAnswer

LEMMA RankerTypes == RankerInv => RankerTypeOK
  <1>. SUFFICES ASSUME RankerInv PROVE RankerTypeOK
       OBVIOUS
  <1>1. Len(offers) <= MaxOffers /\ ToSet(offers) \subseteq Offers
        BY DEF RankerInv, ToSet
  <1>2. ASSUME Asked, NEW i \in DOMAIN answer.candidates PROVE answer.score[i] \in Score
    <2>1. PICK c, goal :
              /\ AreCandidates(c) /\ answer.candidates = c
              /\ \A j \in DOMAIN c : answer.score[j] = Composite(c, c[j], goal)
          BY <1>2, AnswerIs
    <2>. QED BY <1>2, <2>1, CompositeIs
  <1>. QED BY <1>1, <1>2 DEF RankerTypeOK

LEMMA RankerIsFair == RankerInv => BetterIsNotBelow
  <1>. SUFFICES ASSUME RankerInv, Asked,
                       NEW i \in DOMAIN answer.candidates, NEW j \in DOMAIN answer.candidates,
                       answer.candidates[i].bench # NoBench,
                       answer.candidates[j].bench # NoBench,
                       answer.candidates[i].bench >= answer.candidates[j].bench,
                       answer.candidates[i].price <= answer.candidates[j].price,
                       UpScore(answer.candidates[i]) >= UpScore(answer.candidates[j]),
                       answer.candidates[i].reputation >= answer.candidates[j].reputation
                PROVE  /\ answer.score[i] >= answer.score[j]
                       /\ (answer.score[i] > answer.score[j] \/ i <= j)
                          => answer.rank[i] <= answer.rank[j]
       BY DEF BetterIsNotBelow
  <1>1. PICK c, goal :
           /\ AreCandidates(c) /\ answer.candidates = c
           /\ \A k \in DOMAIN c : answer.score[k] = Composite(c, c[k], goal)
           /\ \A k \in DOMAIN c : answer.rank[k] = Ranked(c, goal)[k]
        BY AnswerIs
  <1>2. PriceScore(c, c[j]) <= PriceScore(c, c[i])
    <2>1. PriceScore(c, c[i]) >= PriceScore(c, c[j])
          BY <1>1, CheaperScoresMore
    <2>2. PriceScore(c, c[i]) \in Score /\ PriceScore(c, c[j]) \in Score
          BY <1>1, PriceScoreIs
    <2>. QED BY <2>1, <2>2, ScoreRange
  <1>3. BenchScore(c, c[j]) <= BenchScore(c, c[i])
    <2>1. BenchScore(c, c[i]) >= BenchScore(c, c[j])
          BY <1>1, FasterScoresMore
    <2>2. BenchScore(c, c[i]) \in Score /\ BenchScore(c, c[j]) \in Score
          BY <1>1, BenchScoreIs
    <2>. QED BY <2>1, <2>2, ScoreRange
  <1>4. UpScore(c[j]) <= UpScore(c[i]) /\ c[j].reputation <= c[i].reputation
    <2>1. c[i] \in Offers /\ c[j] \in Offers
          BY <1>1 DEF AreCandidates
    <2>2. /\ UpScore(c[i]) \in Score /\ UpScore(c[j]) \in Score
          /\ c[i].reputation \in Score /\ c[j].reputation \in Score
          BY <2>1, OfferType
    <2>3. \A x, y \in Score : x >= y => y <= x
          BY DEF Score
    <2>. QED BY <1>1, <2>2, <2>3
  <1>5. Composite(c, c[j], goal) <= Composite(c, c[i], goal)
        BY <1>1, <1>2, <1>3, <1>4, CompositeMono
  <1>6. PICK x, y : x = Composite(c, c[i], goal) /\ y = Composite(c, c[j], goal)
        OBVIOUS
  <1>7. x \in Score /\ y \in Score /\ y <= x
        BY <1>1, <1>5, <1>6, CompositeIs
  <1>8. answer.score[i] = x /\ answer.score[j] = y
        BY <1>1, <1>6
  <1>9. answer.score[i] >= answer.score[j]
        BY <1>7, <1>8 DEF Score
  <1>10. ASSUME answer.score[i] > answer.score[j] \/ i <= j
         PROVE  answer.rank[i] <= answer.rank[j]
    <2>1. x > y \/ (x = y /\ i <= j)
          BY <1>7, <1>8, <1>10 DEF Score
    <2>2. Ranked(c, goal)[i] <= Ranked(c, goal)[j]
          BY <1>1, <1>6, <2>1, RankOrder
    <2>. QED BY <1>1, <2>2
  <1>. QED BY <1>9, <1>10

LEMMA RankerSeesSlow == RankerInv => MissingBeatsOnlySlow
  <1>. SUFFICES ASSUME RankerInv, Asked,
                       NEW i \in DOMAIN answer.candidates, NEW j \in DOMAIN answer.candidates,
                       answer.candidates[i].bench = NoBench,
                       answer.candidates[j].bench # NoBench,
                       [answer.candidates[i] EXCEPT !.bench = answer.candidates[j].bench]
                          = answer.candidates[j],
                       answer.score[i] > answer.score[j]
                PROVE  10 * answer.candidates[j].bench < 3 * Max(Benches(answer.candidates))
       BY DEF MissingBeatsOnlySlow
  <1>1. PICK c, goal :
           /\ AreCandidates(c) /\ answer.candidates = c
           /\ \A k \in DOMAIN c : answer.score[k] = Composite(c, c[k], goal)
        BY AnswerIs
  <1>2. PICK a, b : a = c[i] /\ b = c[j]
        OBVIOUS
  <1>3. a \in Offers /\ b \in Offers
        BY <1>1, <1>2 DEF AreCandidates
  <1>4. a.price = b.price /\ a.reputation = b.reputation
    <2>1. [a EXCEPT !.bench = b.bench] = b
          BY <1>1, <1>2
    <2>2. a \in [price: Nat, bench: {NoBench} \cup Nat, up: BOOLEAN, reputation: Score]
          BY <1>3, RankerAssumption
    <2>. QED BY <2>1, <2>2
  <1>5. UpScore(a) = UpScore(b)
    <2>1. [a EXCEPT !.bench = b.bench] = b
          BY <1>1, <1>2
    <2>2. a \in [price: Nat, bench: {NoBench} \cup Nat, up: BOOLEAN, reputation: Score]
          BY <1>3, RankerAssumption
    <2>3. UpScore([a EXCEPT !.bench = b.bench]) = UpScore(a)
      <3>1. [a EXCEPT !.bench = b.bench].up = a.up
            BY <2>2
      <3>. QED BY <3>1, UpAlike
    <2>. QED BY <2>1, <2>3
  <1>6. /\ Benches(answer.candidates) = Benches(c) /\ answer.candidates[j] = b
        /\ Max(Benches(c)) \in Nat /\ b.bench \in Nat /\ b.bench # NoBench /\ a.bench = NoBench
        BY <1>1, <1>2, <1>3, BenchRange, OfferType
  <1>7. SUFFICES ASSUME 10 * b.bench >= 3 * Max(Benches(c)) PROVE FALSE
        BY <1>6
  <1>8. BenchScore(c, c[i]) <= BenchScore(c, c[j])
        BY <1>1, <1>2, <1>6, <1>7, MissingScoresLittle
  <1>9. PriceScore(c, c[i]) <= PriceScore(c, c[j])
    <2>1. PriceScore(c, c[i]) = PriceScore(c, c[j])
          BY <1>2, <1>4 DEF PriceScore
    <2>2. PriceScore(c, c[i]) \in Score
          BY <1>1, PriceScoreIs
    <2>. QED BY <2>1, <2>2, ScoresAreOrdered
  <1>10. UpScore(c[i]) <= UpScore(c[j]) /\ c[i].reputation <= c[j].reputation
    <2>1. UpScore(a) \in Score /\ a.reputation \in Score
          BY <1>3, OfferType
    <2>. QED BY <1>2, <1>4, <1>5, <2>1, ScoresAreOrdered
  <1>11. Composite(c, c[i], goal) <= Composite(c, c[j], goal)
        BY <1>1, <1>8, <1>9, <1>10, CompositeMono
  <1>12. PICK x, y : x = Composite(c, c[i], goal) /\ y = Composite(c, c[j], goal)
        OBVIOUS
  <1>13. x \in Score /\ y \in Score /\ x <= y
        BY <1>1, <1>11, <1>12, CompositeIs
  <1>14. x > y
        BY <1>1, <1>12
  <1>15. x \in Int /\ y \in Int
        BY <1>13, ScoresAreOrdered
  <1>. QED BY ONLY <1>13, <1>14, <1>15

\* The router's answers rank offers fairly, for any offers, goals and budgets: scores are
\* fractions, an offer as good in every respect as another one neither scores nor ranks
\* below it, and one without a benchmark passes only offers slow among the candidates.
THEOREM RankerIsSafe ==
    RankerSpec => [](RankerTypeOK /\ BetterIsNotBelow /\ MissingBeatsOnlySlow)
  <1>. QED BY RankerInvHolds, RankerTypes, RankerIsFair, RankerSeesSlow, PTL

-----------------------------------------------------------------------------
(* CopilotTurns *)

\* A turn that is under way.
IsTurn(t) ==
    \E s \in Talks, a \in Nat, b \in BOOLEAN :
       /\ a < stamp
       /\ \E c : t = [step |-> "asked", talk |-> s, at |-> a, context |-> c, advised |-> b]

CopilotInv ==
    /\ CopilotTypeOK /\ QuestionsAreAnswered
    /\ \A w \in Talkers : turn[w] = Silent \/ IsTurn(turn[w])

LEMMA TurnMoves ==
    ASSUME CopilotInv, NEW w \in Talkers, NEW t, t = Silent \/ IsTurn(t)',
           turn' = [turn EXCEPT ![w] = t], stamp' \in Nat, stamp' >= stamp
    PROVE  /\ DOMAIN turn' = Talkers
           /\ \A v \in Talkers : turn'[v] = Silent \/ IsTurn(turn[v])'
  <1>1. DOMAIN turn = Talkers /\ stamp \in Nat
        BY CopilotAssumption DEF CopilotInv, CopilotTypeOK, CopilotAssumption
  <1>2. /\ DOMAIN turn' = Talkers /\ turn'[w] = t
        /\ \A v \in Talkers : v # w => turn'[v] = turn[v]
        BY <1>1
  <1>3. ASSUME NEW u, IsTurn(u) PROVE IsTurn(u)'
    <2>1. PICK s \in Talks, a \in Nat, b \in BOOLEAN :
             /\ a < stamp
             /\ \E c : u = [step |-> "asked", talk |-> s, at |-> a, context |-> c, advised |-> b]
          BY <1>3 DEF IsTurn
    <2>2. a < stamp'
          BY <1>1, <2>1
    <2>. QED BY <2>1, <2>2 DEF IsTurn
  <1>4. ASSUME NEW v \in Talkers PROVE turn'[v] = Silent \/ IsTurn(turn[v])'
    <2>1. PICK u : u = turn'[v]
          OBVIOUS
    <2>2. u = Silent \/ IsTurn(u)'
          BY <1>2, <1>3, <2>1 DEF CopilotInv
    <2>. QED BY <2>1, <2>2 DEF IsTurn
  <1>. QED BY <1>2, <1>4

LEMMA AdvisedTurn ==
    ASSUME NEW v, NEW p, NEW s, NEW a, NEW c, NEW b, NEW t,
           v = [step |-> p, talk |-> s, at |-> a, context |-> c, advised |-> b]
    PROVE  [v EXCEPT !.advised = t] = [step |-> p, talk |-> s, at |-> a, context |-> c, advised |-> t]
  BY SMT

LEMMA CopilotStep == ASSUME CopilotInv, [CopilotNext]_copilotVars PROVE CopilotInv'
  <1>1. /\ talk \subseteq Talks /\ stamp \in 0..MaxClock /\ advice \subseteq 0..stamp
        /\ \A m \in message : m.talk \in talk /\ m.role \in {"user", "assistant"} /\ m.at \in 0..stamp
        /\ DOMAIN turn = Talkers /\ QuestionsAreAnswered /\ MaxClock \in Nat /\ stamp \in Nat
        /\ \A w \in Talkers : turn[w] = Silent \/ IsTurn(turn[w])
        BY CopilotAssumption DEF CopilotInv, CopilotTypeOK, CopilotAssumption
  \* The messages stay, and so does all that is said of them.
  <1>2. ASSUME UNCHANGED <<talk, message, advice>>, stamp' \in 0..MaxClock, stamp' >= stamp,
               DOMAIN turn' = Talkers,
               \A v \in Talkers : turn'[v] = Silent \/ IsTurn(turn[v])'
        PROVE  CopilotInv'
    <2>1. 0..stamp \subseteq 0..stamp'
          BY <1>1, <1>2
    <2>2. CopilotTypeOK'
          BY <1>1, <1>2, <2>1 DEF CopilotTypeOK
    <2>3. QuestionsAreAnswered'
          BY <1>1, <1>2 DEF QuestionsAreAnswered
    <2>. QED BY <1>2, <2>2, <2>3 DEF CopilotInv
  <1>3. ASSUME NEW w \in Talkers, NEW s \in Talks, TurnBegins(w, s) PROVE CopilotInv'
    <2>. DEFINE t == [step |-> "asked", talk |-> s, at |-> stamp, context |-> Recent(s),
                      advised |-> FALSE]
    <2>1. /\ turn' = [turn EXCEPT ![w] = t] /\ stamp' = stamp + 1 /\ stamp < MaxClock
          /\ UNCHANGED <<talk, message, advice>>
          BY <1>3 DEF TurnBegins
    <2>2. PICK u : u = t
          OBVIOUS
    <2>3. IsTurn(u)'
      <3>1. PICK a \in Nat : a = stamp /\ a < stamp'
            BY <1>1, <2>1
      <3>2. FALSE \in BOOLEAN /\ \E c : u = [step |-> "asked", talk |-> s, at |-> a, context |-> c,
                                             advised |-> FALSE]
            BY <2>2, <3>1
      <3>. QED BY <3>1, <3>2 DEF IsTurn
    <2>4. stamp' \in Nat /\ stamp' >= stamp /\ stamp' \in 0..MaxClock
          BY <1>1, <2>1
    <2>5. turn' = [turn EXCEPT ![w] = u]
          BY <2>1, <2>2
    <2>6. /\ DOMAIN turn' = Talkers
          /\ \A v \in Talkers : turn'[v] = Silent \/ IsTurn(turn[v])'
          BY <2>3, <2>4, <2>5, TurnMoves
    <2>. QED BY <1>2, <2>1, <2>4, <2>6
  <1>4. ASSUME NEW w \in Talkers, turn[w].step = "asked"
        PROVE  IsTurn(turn[w])
        BY <1>1, <1>4 DEF Silent
  <1>5. ASSUME NEW w \in Talkers, TurnAdvises(w) PROVE CopilotInv'
    <2>1. /\ turn' = [turn EXCEPT ![w].advised = TRUE] /\ UNCHANGED <<talk, message, advice, stamp>>
          /\ turn[w].step = "asked"
          BY <1>5 DEF TurnAdvises
    <2>2. PICK s \in Talks, a \in Nat, b \in BOOLEAN :
             /\ a < stamp
             /\ \E c : turn[w] = [step |-> "asked", talk |-> s, at |-> a, context |-> c,
                                  advised |-> b]
          BY <1>4, <2>1 DEF IsTurn
    <2>3. PICK c : turn[w] = [step |-> "asked", talk |-> s, at |-> a, context |-> c, advised |-> b]
          BY <2>2
    <2>4. PICK u : u = [step |-> "asked", talk |-> s, at |-> a, context |-> c, advised |-> TRUE]
          OBVIOUS
    <2>5. turn' = [turn EXCEPT ![w] = u]
      <3>1. turn' = [turn EXCEPT ![w] = [turn[w] EXCEPT !.advised = TRUE]]
            BY <1>1, <2>1
      <3>2. [turn[w] EXCEPT !.advised = TRUE] = u
        <4>1. PICK v, t : v = turn[w] /\ t = TRUE
              OBVIOUS
        <4>2. v = [step |-> "asked", talk |-> s, at |-> a, context |-> c, advised |-> b]
              BY <2>3, <4>1
        <4>3. [v EXCEPT !.advised = t]
                 = [step |-> "asked", talk |-> s, at |-> a, context |-> c, advised |-> t]
              BY <4>2, AdvisedTurn
        <4>. QED BY <2>4, <4>1, <4>3, Zenon
      <3>. QED BY <3>1, <3>2
    <2>6. IsTurn(u)'
      <3>1. TRUE \in BOOLEAN /\ a < stamp'
            BY <2>1, <2>2
      <3>. QED BY <2>4, <3>1 DEF IsTurn
    <2>7. stamp' \in Nat /\ stamp' >= stamp /\ stamp' \in 0..MaxClock
          BY <1>1, <2>1
    <2>8. /\ DOMAIN turn' = Talkers
          /\ \A v \in Talkers : turn'[v] = Silent \/ IsTurn(turn[v])'
          BY <2>5, <2>6, <2>7, TurnMoves
    <2>. QED BY <1>2, <2>1, <2>7, <2>8
  <1>6. ASSUME NEW w \in Talkers, TurnFails(w) PROVE CopilotInv'
    <2>1. /\ turn' = [turn EXCEPT ![w] = Silent] /\ UNCHANGED <<talk, message, advice, stamp>>
          BY <1>6 DEF TurnFails
    <2>2. stamp' \in Nat /\ stamp' >= stamp /\ stamp' \in 0..MaxClock
          BY <1>1, <2>1
    <2>3. /\ DOMAIN turn' = Talkers
          /\ \A v \in Talkers : turn'[v] = Silent \/ IsTurn(turn[v])'
          BY <2>1, <2>2, TurnMoves
    <2>. QED BY <1>2, <2>1, <2>2, <2>3
  <1>7. ASSUME NEW w \in Talkers, TurnCommits(w) PROVE CopilotInv'
    <2>1. PICK s \in Talks, a \in Nat, b \in BOOLEAN :
             /\ a < stamp
             /\ \E c : turn[w] = [step |-> "asked", talk |-> s, at |-> a, context |-> c,
                                  advised |-> b]
          BY <1>4, <1>7 DEF IsTurn, TurnCommits
    <2>2. turn[w].talk = s /\ turn[w].at = a /\ turn[w].advised = b
          BY <2>1
    <2>3. PICK q : q = [talk |-> s, role |-> "user", turn |-> a, at |-> a, advised |-> FALSE]
          OBVIOUS
    <2>4. PICK r : r = [talk |-> s, role |-> "assistant", turn |-> a, at |-> stamp, advised |-> b]
          OBVIOUS
    <2>5. /\ talk' = talk \cup {s} /\ message' = message \cup {q, r}
          /\ advice' = (IF b THEN advice \cup {a} ELSE advice)
          /\ stamp < MaxClock /\ stamp' = stamp + 1 /\ turn' = [turn EXCEPT ![w] = Silent]
          BY <1>7, <2>2, <2>3, <2>4 DEF TurnCommits
    <2>6. /\ q.talk = s /\ q.role = "user" /\ q.turn = a /\ q.at = a /\ ~ q.advised
          BY <2>3
    <2>7. /\ r.talk = s /\ r.role = "assistant" /\ r.turn = a /\ r.at = stamp
          BY <2>4
    <2>8. r.advised => b
          BY <2>4
    <2>9. stamp' \in Nat /\ stamp' >= stamp /\ stamp' \in 0..MaxClock /\ 0..stamp \subseteq 0..stamp'
          /\ a \in 0..stamp'
          BY <1>1, <2>1, <2>5
    <2>10. /\ DOMAIN turn' = Talkers
           /\ \A v \in Talkers : turn'[v] = Silent \/ IsTurn(turn[v])'
           BY <2>5, <2>9, TurnMoves
    <2>11. /\ advice \subseteq advice' /\ advice' \subseteq 0..stamp' /\ (b => a \in advice')
           BY <1>1, <2>5, <2>9
    <2>12. CopilotTypeOK'
      <3>1. talk' \subseteq Talks
            BY <1>1, <2>5
      <3>2. stamp \in 0..stamp'
            BY <1>1, <2>5
      <3>3. \A m \in message' : /\ m.talk \in talk' /\ m.role \in {"user", "assistant"}
                                /\ m.at \in 0..stamp'
            BY <1>1, <2>5, <2>6, <2>7, <2>9, <3>2
      <3>. QED BY <2>9, <2>10, <2>11, <3>1, <3>3 DEF CopilotTypeOK
    <2>13. QuestionsAreAnswered'
      <3>1. ASSUME NEW m \in message', m.role = "user"
            PROVE  \E n \in message' : /\ n.role = "assistant" /\ n.at > m.at
                                       /\ n.talk = m.talk /\ n.turn = m.turn
        <4>1. CASE m \in message
              BY <1>1, <2>5, <3>1, <4>1 DEF QuestionsAreAnswered
        <4>2. CASE m = q
          <5>1. r \in message' /\ r.at > q.at
                BY <1>1, <2>1, <2>5, <2>6, <2>7
          <5>. QED BY <2>6, <2>7, <4>2, <5>1
        <4>3. CASE m = r
              BY <2>7, <3>1, <4>3
        <4>. QED BY <2>5, <4>1, <4>2, <4>3
      <3>2. ASSUME NEW m \in message', m.advised PROVE m.turn \in advice'
        <4>1. CASE m \in message
              BY <1>1, <2>11, <3>2, <4>1 DEF QuestionsAreAnswered
        <4>2. CASE m = q
              BY <2>6, <3>2, <4>2
        <4>3. CASE m = r
              BY <2>7, <2>8, <2>11, <3>2, <4>3
        <4>. QED BY <2>5, <4>1, <4>2, <4>3
      <3>. QED BY <3>1, <3>2 DEF QuestionsAreAnswered
    <2>. QED BY <2>10, <2>12, <2>13 DEF CopilotInv
  <1>8. CASE UNCHANGED copilotVars
    <2>1. UNCHANGED <<talk, message, advice, turn, stamp>>
          BY <1>8 DEF copilotVars
    <2>2. \A v \in Talkers : turn'[v] = Silent \/ IsTurn(turn[v])'
          BY <1>1, <2>1 DEF IsTurn
    <2>3. stamp' \in 0..MaxClock /\ stamp' >= stamp /\ DOMAIN turn' = Talkers
          BY <1>1, <2>1
    <2>. QED BY <1>2, <2>1, <2>2, <2>3
  <1>. QED BY <1>3, <1>5, <1>6, <1>7, <1>8 DEF CopilotNext

LEMMA CopilotIsSafe == CopilotSpec => [](CopilotTypeOK /\ QuestionsAreAnswered)
  <1>1. CopilotInit => CopilotInv
        BY CopilotAssumption DEF CopilotInit, CopilotInv, CopilotTypeOK, QuestionsAreAnswered,
                                 CopilotAssumption
  <1>2. CopilotInv => CopilotTypeOK /\ QuestionsAreAnswered
        BY DEF CopilotInv
  <1>. QED BY <1>1, <1>2, CopilotStep, PTL DEF CopilotSpec

-----------------------------------------------------------------------------
(* The scenes *)

LEMMA AccessSceneStep ==
    ASSUME [AccessNext]_<<scene, accessVars>>
    PROVE  /\ [AuthNext]_authVars /\ [DeviceNext]_deviceVars /\ [AdminNext]_adminVars
           /\ [GatewayNext]_gatewayVars /\ [TunnelNext]_tunnelVars
           /\ [VettingNext]_vettingVars /\ [CopilotNext]_copilotVars
           /\ [RankerNext]_rankerVars /\ [LaunchNext]_launchVars
  <1>1. CASE AccessNext
        BY <1>1 DEF AccessNext
  <1>2. CASE UNCHANGED <<scene, accessVars>>
        BY <1>2 DEF accessVars
  <1>. QED BY <1>1, <1>2

LEMMA AccessScenes ==
    AccessSpec => /\ AuthSpec /\ DeviceSpec /\ AdminSpec /\ GatewaySpec /\ TunnelSpec
                  /\ VettingSpec /\ CopilotSpec /\ RankerSpec /\ LaunchSpec
  <1>1. AccessInit => /\ AuthInit /\ DeviceInit /\ AdminInit /\ GatewayInit /\ TunnelInit
                      /\ VettingInit /\ CopilotInit /\ RankerInit /\ LaunchInit
        BY DEF AccessInit
  <1>. QED BY <1>1, AccessSceneStep, PTL
           DEF AccessSpec, AuthSpec, DeviceSpec, AdminSpec, GatewaySpec, TunnelSpec,
               VettingSpec, CopilotSpec, RankerSpec, LaunchSpec

\* A used refresh token has a successor and is rotated twice only by requests that
\* overlap, a device gets its pair only after its user approved it, and a user is verified
\* only by a code that is spent: for any requests, users, tokens and codes.
THEOREM LoginStaysSafe == AccessSpec => []LoginSafety
  <1>1. (AuthTypeOK /\ UsedMeansReplaced /\ RotationsOverlap)
           /\ (DeviceTypeOK /\ PairsFollowApproval /\ VerifiedBySpentCode) => LoginSafety
        BY DEF LoginSafety
  <1>. QED BY <1>1, AccessScenes, AuthIsSafe, DeviceIsSafe, PTL

\* A quorum approved what is executable, an elevation ends, nothing is verified for a
\* locked key, a nonce comes back only as it expires, and every grant to a host was
\* decided: for any administrators, quorum, keys, nonces and hosts.
THEOREM GrantsStaySafe == AccessSpec => []GrantSafety
  <1>1. (AdminTypeOK /\ ApprovedByQuorum /\ ElevationIsBounded
           /\ LockedVerifiesNothing /\ NonceReusedOnlyAtTheEdge)
           /\ (VettingTypeOK /\ GrantsWereDecided) => GrantSafety
        BY DEF GrantSafety
  <1>. QED BY <1>1, AccessScenes, AdminIsSafe, VettingIsSafe, PTL

\* A minute's requests are limited, an upstream acts at most once on a request and only
\* if it was let through, and a registered tunnel has a connection that serves it: for
\* any limits, clients, requests and connections.
THEOREM GatewayStaysSafe == AccessSpec => []GatewaySafety
  <1>1. (GatewayTypeOK /\ MinuteIsLimited /\ ActsOnceIfAllowed)
           /\ (TunnelTypeOK /\ TunnelIsServed) => GatewaySafety
        BY DEF GatewaySafety
  <1>. QED BY <1>1, AccessScenes, GatewayIsSafe, TunnelIsSafe, PTL

\* A row is inserted only for a listing and a host that were seen fit since its request was
\* asked, and records a hold that the listing cost and the wallet covered at such times:
\* for any number of requests at a time, prices, balances and tenants, and whatever answers
\* the request for a hold.
THEOREM LaunchesStaySafe == AccessSpec => []LaunchSafety
  <1>1. LaunchTypeOK /\ SeenBeforeLaunch => LaunchSafety
        BY DEF LaunchSafety
  <1>. QED BY <1>1, AccessScenes, LaunchIsSafe, PTL

\* Every question of a tenant gets an answer stamped after it, an offer as good in every
\* respect as another one does not rank below it, and one without a benchmark passes only
\* slow ones: for any talks, offers, goals and budgets.
THEOREM RouterStaysSafe == AccessSpec => []RouterSafety
  <1>1. (CopilotTypeOK /\ QuestionsAreAnswered)
           /\ (RankerTypeOK /\ BetterIsNotBelow /\ MissingBeatsOnlySlow) => RouterSafety
        BY DEF RouterSafety
  <1>. QED BY <1>1, AccessScenes, CopilotIsSafe, RankerIsSafe, PTL
=============================================================================
