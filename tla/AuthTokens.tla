------------------------------ MODULE AuthTokens ------------------------------
(***************************************************************************)
(* Refresh tokens of one account in auth_service: signup, login, rotation  *)
(* with detection of reuse, and logout.  A request is one database         *)
(* transaction, which any HTTPException rolls back.                        *)
(***************************************************************************)
EXTENDS Naturals, Sequences, FiniteSets

CONSTANTS
    AuthWorkers,  \* requests that may run at a time
    MaxTokens     \* bound: refresh tokens

ASSUME AuthAssumption == MaxTokens \in Nat /\ IsFiniteSet(AuthWorkers)

VARIABLES
    account,    \* the users row: none, active or inactive
    announced,  \* whether user_created was published
    tokens,     \* refresh_tokens, in the order of their commits
    clock,      \* tokens 1..clock have expired
    req         \* what each request has read or flushed

authVars == <<account, announced, tokens, clock, req>>

\* parent is the token whose rotation issued this one, 0 after a login.
Token == [parent: 0..MaxTokens, family: 1..MaxTokens, used: BOOLEAN,
          revoked: BOOLEAN]
Req   == [op: {"none", "signup", "rotate", "revoking"}, token: 0..MaxTokens]
NoReq == [op |-> "none", token |-> 0]

Children(t) == {c \in 1..Len(tokens) : tokens[c].parent = t}

AuthInit ==
    /\ account = "none" /\ announced = FALSE
    /\ tokens = <<>> /\ clock = 0
    /\ req = [w \in AuthWorkers |-> NoReq]

\* RefreshTokenRepository.create: the first of a new family.
Issue == Append(tokens, [parent |-> 0, family |-> Len(tokens) + 1,
                         used |-> FALSE, revoked |-> FALSE])

-----------------------------------------------------------------------------

\* The user is flushed (a second one of the email waits for the first and then
\* fails) and announced, before the transaction commits.
SignupFlush(w) ==
    /\ req[w].op = "none" /\ account = "none"
    /\ \A v \in AuthWorkers : req[v].op # "signup"
    /\ announced' \in {announced, TRUE}   \* a failed publish is only logged
    /\ req' = [req EXCEPT ![w].op = "signup"]
    /\ UNCHANGED <<account, tokens, clock>>

SignupCommit(w) ==
    /\ req[w].op = "signup" /\ Len(tokens) < MaxTokens
    /\ account' = "active"
    /\ tokens' = Issue
    /\ req' = [req EXCEPT ![w] = NoReq]
    /\ UNCHANGED <<announced, clock>>

Login ==
    /\ account = "active" /\ Len(tokens) < MaxTokens
    /\ tokens' = Issue
    /\ UNCHANGED <<account, announced, clock, req>>

\* is_active is cleared by the kill switch.
Deactivate ==
    /\ account = "active"
    /\ account' = "inactive"
    /\ UNCHANGED <<announced, tokens, clock, req>>

Expire ==
    /\ clock < Len(tokens)
    /\ clock' = clock + 1
    /\ UNCHANGED <<account, announced, tokens, req>>

-----------------------------------------------------------------------------
(* POST /auth/refresh.                                                      *)

MUT_RotateReads(w, t) ==
    /\ req[w].op = "none"
    /\ t \in (clock + 1)..Len(tokens) /\ ~tokens[t].revoked
    /\ req' = [req EXCEPT ![w] = [op |-> "rotate", token |-> t]]
    /\ UNCHANGED <<account, announced, tokens, clock>>

\* The token is read without a lock.
RotateReads(w, t) ==
    /\ req[w].op = "none"
    /\ t \in (clock + 1)..Len(tokens)
    /\ ~tokens[t].revoked /\ ~tokens[t].used
    /\ req' = [req EXCEPT ![w] = [op |-> "rotate", token |-> t]]
    /\ UNCHANGED <<account, announced, tokens, clock>>

\* A used or revoked token: the update that revokes its family is flushed ...
RotateFindsReuse(w, t) ==
    /\ req[w].op = "none"
    /\ t \in (clock + 1)..Len(tokens)
    /\ tokens[t].revoked \/ tokens[t].used
    /\ req' = [req EXCEPT ![w] = [op |-> "revoking", token |-> t]]
    /\ UNCHANGED <<account, announced, tokens, clock>>

\* ... and rolled back by the 401 that follows.
RotateRefused(w) ==
    /\ req[w].op = "revoking"
    /\ req' = [req EXCEPT ![w] = NoReq]
    /\ UNCHANGED <<account, announced, tokens, clock>>

MUT_RotateCommits(w) ==
    LET t == req[w].token IN
    /\ req[w].op = "rotate" /\ Len(tokens) < MaxTokens
    /\ account = "active"
    /\ tokens' = Append(tokens, [parent |-> t, family |-> tokens[t].family,
                                 used |-> FALSE, revoked |-> FALSE])
    /\ req' = [req EXCEPT ![w] = NoReq]
    /\ UNCHANGED <<account, announced, clock>>

\* used_at is written by primary key, whatever became of the token meanwhile; an
\* inactive account is a 401 that rolls all of it back.
RotateCommits(w) ==
    LET t == req[w].token IN
    /\ req[w].op = "rotate" /\ Len(tokens) < MaxTokens
    /\ tokens' = IF account # "active" THEN tokens
                 ELSE Append([tokens EXCEPT ![t].used = TRUE],
                             [parent |-> t, family |-> tokens[t].family,
                              used |-> FALSE, revoked |-> FALSE])
    /\ req' = [req EXCEPT ![w] = NoReq]
    /\ UNCHANGED <<account, announced, clock>>

\* A logout's access token outlives the account's state.
Logout ==
    /\ account # "none"
    /\ tokens' = [t \in 1..Len(tokens) |-> [tokens[t] EXCEPT !.revoked = TRUE]]
    /\ UNCHANGED <<account, announced, clock, req>>

RequestAborts(w) ==
    /\ req[w].op # "none"
    /\ req' = [req EXCEPT ![w] = NoReq]
    /\ UNCHANGED <<account, announced, tokens, clock>>

-----------------------------------------------------------------------------

AuthNext ==
    \/ Login \/ Deactivate \/ Expire \/ Logout
    \/ \E w \in AuthWorkers :
          \/ SignupFlush(w) \/ SignupCommit(w)
          \/ \E t \in 1..MaxTokens : RotateReads(w, t) \/ RotateFindsReuse(w, t)
          \/ RotateCommits(w) \/ RotateRefused(w) \/ RequestAborts(w)

AuthSpec == AuthInit /\ [][AuthNext]_authVars

-----------------------------------------------------------------------------
(* Properties that hold *)

\* Every variable keeps its type.
AuthTypeOK ==
    /\ account \in {"none", "active", "inactive"} /\ announced \in BOOLEAN
    /\ tokens \in Seq(Token) /\ clock \in 0..MaxTokens
    /\ req \in [AuthWorkers -> Req]

\* A token is used exactly if a later one of its family replaces it: an aborted
\* or refused rotation neither burns a token nor issues one.
UsedMeansReplaced ==
    \A t \in 1..Len(tokens) :
        /\ tokens[t].used <=> Children(t) # {}
        /\ \A c \in Children(t) : c > t /\ tokens[c].family = tokens[t].family

\* A token is replaced more than once only by rotations that overlapped.
RotationsOverlap ==
    \A t \in 1..Len(tokens) : Cardinality(Children(t)) <= Cardinality(AuthWorkers)

-----------------------------------------------------------------------------
(* Claims of the code's own text that its behaviour contradicts *)

\* repository.py: on reuse, rotate "revokes the ENTIRE token family".
ReuseRevokesFamily ==
    [][\A w \in AuthWorkers :
          req[w].op = "revoking" /\ req'[w].op # "revoking" =>
              \A t \in 1..Len(tokens) :
                  tokens[t].family = tokens[req[w].token].family => tokens'[t].revoked
      ]_authVars
=============================================================================
