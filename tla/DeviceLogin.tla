----------------------------- MODULE DeviceLogin -----------------------------
(***************************************************************************)
(* The device code grant of auth_service (RFC 8628): the CLI asks for a    *)
(* code and polls it, a user approves it in the browser.  Phone numbers    *)
(* verified by a one-time code, whose requests read and write the same way.*)
(***************************************************************************)
EXTENDS Naturals, Sequences, FiniteSets

CONSTANTS
    Approvers,     \* users who may approve the code
    LoginWorkers,  \* requests that may run at a time
    NoUser,
    MaxOtps,       \* bound: one-time codes of a phone number
    MaxOtpTries    \* phone_otp_max_attempts

ASSUME DeviceAssumption ==
    /\ NoUser \notin Approvers /\ IsFiniteSet(LoginWorkers)
    /\ MaxOtps \in Nat /\ MaxOtpTries \in Nat \ {0}

VARIABLES
    device,    \* the device_codes row
    approved,  \* users whose approval was answered with success
    pairs,     \* users for whom polls have issued token pairs
    cli,       \* the CLI: its login, and the user in ~/.kynetic/credentials
    otps,      \* phone_otps of one user and number, the newest last
    verified,  \* phone_verified
    reading    \* what each request has read

deviceVars == <<device, approved, pairs, cli, otps, verified, reading>>

DeviceStatus == {"none", "PENDING", "APPROVED"}   \* EXPIRED is never written
Otp     == [used: BOOLEAN, attempts: Nat, expired: BOOLEAN]
Reading == [op: {"none", "approve", "otp"}, user: Approvers \cup {NoUser},
            otp: 0..MaxOtps, attempts: Nat, right: BOOLEAN]
NoRead  == [op |-> "none", user |-> NoUser, otp |-> 0, attempts |-> 0,
            right |-> FALSE]

DeviceInit ==
    /\ device = [status |-> "none", user |-> NoUser, expired |-> FALSE]
    /\ approved = {} /\ pairs = {}
    /\ cli = [at |-> "out", creds |-> NoUser]
    /\ otps = <<>> /\ verified = FALSE
    /\ reading = [w \in LoginWorkers |-> NoRead]

-----------------------------------------------------------------------------

\* login asks for a code pair and starts to poll.
RequestCode ==
    /\ device.status = "none" /\ cli.at = "out"
    /\ device' = [device EXCEPT !.status = "PENDING"]
    /\ cli' = [cli EXCEPT !.at = "polling"]
    /\ UNCHANGED <<approved, pairs, otps, verified, reading>>

CodeExpires ==
    /\ device.status # "none" /\ ~device.expired
    /\ device' = [device EXCEPT !.expired = TRUE]
    /\ UNCHANGED <<approved, pairs, otps, verified, reading, cli>>

\* An approved code is answered "already authorized" and left alone.
VerifyReads(w, u) ==
    /\ reading[w].op = "none"
    /\ device.status = "PENDING" /\ ~device.expired
    /\ reading' = [reading EXCEPT ![w] = [NoRead EXCEPT !.op = "approve", !.user = u]]
    /\ UNCHANGED <<device, approved, pairs, otps, verified, cli>>

\* approve writes the user by primary key, over another's.
VerifyCommits(w) ==
    /\ reading[w].op = "approve"
    /\ device' = [device EXCEPT !.status = "APPROVED", !.user = reading[w].user]
    /\ approved' = approved \cup {reading[w].user}
    /\ reading' = [reading EXCEPT ![w] = NoRead]
    /\ UNCHANGED <<pairs, otps, verified, cli>>

MUT_Poll ==
    /\ cli.at = "polling" /\ device.status # "none"
    /\ pairs' = pairs \cup {device.user}
    /\ cli' \in {cli, [at |-> "in", creds |-> device.user]}
    /\ UNCHANGED <<device, approved, otps, verified, reading>>

\* Every poll of an approved code issues a pair, until the code expires; an
\* answer that is lost is asked for again.
Poll ==
    /\ cli.at = "polling" /\ device.status = "APPROVED" /\ ~device.expired
    /\ pairs' = pairs \cup {device.user}
    /\ cli' \in {cli, [at |-> "in", creds |-> device.user]}
    /\ UNCHANGED <<device, approved, otps, verified, reading>>

\* expired_token, or expires_in seconds by the CLI's own clock.
GiveUp ==
    /\ cli.at = "polling"
    /\ cli' = [cli EXCEPT !.at = "gaveUp"]
    /\ UNCHANGED <<device, approved, pairs, otps, verified, reading>>

\* The credentials are cleared whether or not the server was reached.
CliLogout ==
    /\ cli.at = "in"
    /\ cli' = [at |-> "out", creds |-> NoUser]
    /\ UNCHANGED <<device, approved, pairs, otps, verified, reading>>

-----------------------------------------------------------------------------
(* POST /auth/phone/send-otp and /verify-otp.                               *)

Active == {n \in 1..Len(otps) : ~otps[n].used /\ ~otps[n].expired}

SendOtp ==
    /\ Len(otps) < MaxOtps
    /\ otps' = Append(otps, [used |-> FALSE, attempts |-> 0, expired |-> FALSE])
    /\ UNCHANGED <<device, approved, pairs, verified, reading, cli>>

OtpExpires(n) ==
    /\ n \in 1..Len(otps) /\ ~otps[n].expired
    /\ otps' = [otps EXCEPT ![n].expired = TRUE]
    /\ UNCHANGED <<device, approved, pairs, verified, reading, cli>>

\* get_active: the newest; 429 when its attempts are used up.
OtpReads(w, right) ==
    \E n \in Active :
        /\ reading[w].op = "none"
        /\ \A k \in Active : k <= n
        /\ otps[n].attempts < MaxOtpTries
        /\ reading' = [reading EXCEPT ![w] =
              [NoRead EXCEPT !.op = "otp", !.otp = n, !.attempts = otps[n].attempts,
                             !.right = right]]
        /\ UNCHANGED <<device, approved, pairs, otps, verified, cli>>

MUT_OtpCommits(w) ==
    LET r == reading[w] IN
    /\ r.op = "otp"
    /\ verified' = (verified \/ r.right)
    /\ reading' = [reading EXCEPT ![w] = NoRead]
    /\ UNCHANGED <<device, approved, pairs, otps, cli>>

\* A wrong code is a 400, which rolls back the attempt counted before it.
OtpCommits(w) ==
    LET r == reading[w] IN
    /\ r.op = "otp"
    /\ IF r.right
       THEN /\ otps' = [otps EXCEPT ![r.otp].used = TRUE,
                                    ![r.otp].attempts = r.attempts + 1]
            /\ verified' = TRUE
       ELSE UNCHANGED <<otps, verified>>
    /\ reading' = [reading EXCEPT ![w] = NoRead]
    /\ UNCHANGED <<device, approved, pairs, cli>>

LoginAborts(w) ==
    /\ reading[w].op # "none"
    /\ reading' = [reading EXCEPT ![w] = NoRead]
    /\ UNCHANGED <<device, approved, pairs, otps, verified, cli>>

-----------------------------------------------------------------------------

DeviceNext ==
    \/ RequestCode \/ CodeExpires \/ Poll \/ GiveUp \/ CliLogout \/ SendOtp
    \/ \E n \in 1..MaxOtps : OtpExpires(n)
    \/ \E w \in LoginWorkers :
          \/ \E u \in Approvers : VerifyReads(w, u)
          \/ VerifyCommits(w)
          \/ OtpReads(w, TRUE) \/ OtpReads(w, FALSE)
          \/ OtpCommits(w) \/ LoginAborts(w)

DeviceSpec == DeviceInit /\ [][DeviceNext]_deviceVars

-----------------------------------------------------------------------------
(* Properties that hold *)

\* Every variable keeps its type.
DeviceTypeOK ==
    /\ device \in [status: DeviceStatus, user: Approvers \cup {NoUser},
                   expired: BOOLEAN]
    /\ approved \subseteq Approvers /\ pairs \subseteq Approvers
    /\ cli \in [at: {"out", "polling", "in", "gaveUp"}, creds: Approvers \cup {NoUser}]
    /\ otps \in Seq(Otp) /\ verified \in BOOLEAN
    /\ reading \in [LoginWorkers -> Reading]

\* A code logs in only users who approved it, at the CLI too, and a second user
\* only if their approval overlapped the first one's.
PairsFollowApproval ==
    /\ pairs \subseteq approved
    /\ cli.at = "in" => cli.creds \in pairs
    /\ Cardinality(approved) <= Cardinality(LoginWorkers)

\* A number counts as verified only if one of its codes was spent on it.
VerifiedBySpentCode == verified <=> \E n \in 1..Len(otps) : otps[n].used

-----------------------------------------------------------------------------
(* Claims of the code's own text that its behaviour contradicts *)

\* routes.py: "Enforce attempt limit": a refused attempt counts.
RefusedAttemptCounts ==
    [][\A w \in LoginWorkers :
          reading[w].op = "otp" /\ ~reading[w].right /\ reading'[w].op = "none" =>
              otps'[reading[w].otp].attempts > reading[w].attempts]_deviceVars
=============================================================================
