--------------------------- MODULE TemplateRegistry ---------------------------
(***************************************************************************)
(* One-click templates of the provisioning service: an administrator's     *)
(* registration, the scan of the image by a Celery task, launches from a   *)
(* template, and the web UI tokens of an instance, which its termination   *)
(* revokes.                                                                *)
(***************************************************************************)
EXTENDS Integers, FiniteSetsExt

CONSTANTS
    Slugs, Registrars, Scanners, Viewers, UiInstances,
    ScanMock,       \* firecracker_mock, or a testing environment
    MaxTokens       \* bound: tokens of an instance

ASSUME TemplateAssumption ==
    ScanMock \in BOOLEAN /\ MaxTokens \in Nat /\ IsFiniteSet(Viewers)

VARIABLES
    clean,      \* whether the image of the template has no finding that blocks
    template,   \* templates.status, "none" without a row
    scans,      \* queued messages of scan_template_image
    registrar,  \* POST /templates
    scanner,    \* Celery workers
    deserted,   \* templates whose registrar ended between its commit and the delay
    lost,       \* templates whose scan's message is gone with its process or a failed write
    instance,   \* instances.status and template
    token,      \* template_web_ui_sessions
    viewer,     \* GET /instances/{id}/web-ui
    teardown,   \* a terminate_instance and the tokens its UPDATE found
    killed      \* instances the kill switch has terminated

templateVars ==
    <<clean, template, scans, registrar, scanner, deserted, lost, instance, token, viewer,
      teardown, killed>>

TemplateStatus == {"pending_scan", "available", "disabled"}
Off            == [step |-> "off"]

TemplateInit ==
    /\ clean \in [Slugs -> BOOLEAN]
    /\ template = [t \in Slugs |-> "none"] /\ scans = {} /\ deserted = {}
    /\ lost = {} /\ killed = {}
    /\ registrar = [r \in Registrars |-> Off] /\ scanner = [w \in Scanners |-> Off]
    /\ instance = [i \in UiInstances |-> Off] /\ token = [i \in UiInstances |-> {}]
    /\ viewer = [v \in Viewers |-> Off] /\ teardown = [i \in UiInstances |-> Off]

-----------------------------------------------------------------------------
(* create_template.                                                         *)

\* A slug that is taken is answered with 409.
CreateLooks(r, t) ==
    /\ registrar[r] = Off /\ template[t] = "none"
    /\ registrar' = [registrar EXCEPT ![r] = [step |-> "looked", slug |-> t]]
    /\ UNCHANGED <<clean, template, scans, scanner, deserted, instance, token, viewer,
                   teardown, lost, killed>>

\* Of two that found the slug free the second fails with the unique constraint: 500.
CreateCommits(r) ==
    LET t == registrar[r].slug IN
    /\ registrar[r].step = "looked"
    /\ IF template[t] = "none"
       THEN /\ template' = [template EXCEPT ![t] = "pending_scan"]
            /\ registrar' = [registrar EXCEPT ![r] = [step |-> "committed", slug |-> t]]
       ELSE /\ registrar' = [registrar EXCEPT ![r] = Off]
            /\ UNCHANGED template
    /\ UNCHANGED <<clean, scans, scanner, deserted, instance, token, viewer, teardown,
                   lost, killed>>

\* The message is enqueued after the commit, or never.
CreateEnqueues(r) ==
    /\ registrar[r].step = "committed"
    /\ scans' = scans \cup {registrar[r].slug}
    /\ registrar' = [registrar EXCEPT ![r] = Off]
    /\ UNCHANGED <<clean, template, scanner, deserted, instance, token, viewer, teardown,
                   lost, killed>>

CreatorDies(r) ==
    /\ registrar[r].step = "committed"
    /\ deserted' = deserted \cup {registrar[r].slug}
    /\ registrar' = [registrar EXCEPT ![r] = Off]
    /\ UNCHANGED <<clean, template, scans, scanner, instance, token, viewer, teardown,
                   lost, killed>>

-----------------------------------------------------------------------------
(* scan_template_image: the message stays until the task has ended.         *)

ScanPickup(w, t) ==
    /\ scanner[w] = Off /\ t \in scans
    /\ scanner' = [scanner EXCEPT ![w] = [step |-> "scanning", slug |-> t]]
    /\ UNCHANGED <<clean, template, scans, registrar, deserted, instance, token, viewer,
                   teardown, lost, killed>>

MUT_Passed(t, answered) == ~answered \/ clean[t] \/ ScanMock

\* The security service answers whether the image is blocked; a call that fails, or
\* takes longer than its 120 seconds, counts as one that is.
Passed(t, answered) == (answered /\ clean[t]) \/ ScanMock

Scanned(t, answered) ==
    template' = [template EXCEPT ![t] = IF Passed(t, answered) THEN "available" ELSE "disabled"]

ScanEnds(w, answered) ==
    LET t == scanner[w].slug IN
    /\ scanner[w].step = "scanning"
    /\ Scanned(t, answered)
    /\ scans' = scans \ {t}
    /\ scanner' = [scanner EXCEPT ![w] = Off]
    /\ UNCHANGED <<clean, registrar, deserted, lost, instance, token, viewer, teardown,
                   killed>>

\* The write of the result fails: so does the task, whose message is acknowledged all the
\* same; nothing retries it.
ScanWriteFails(w) ==
    LET t == scanner[w].slug IN
    /\ scanner[w].step = "scanning"
    /\ scans' = scans \ {t} /\ lost' = lost \cup {t}
    /\ scanner' = [scanner EXCEPT ![w] = Off]
    /\ UNCHANGED <<clean, template, registrar, deserted, instance, token, viewer,
                   teardown, killed>>

\* A worker that dies, before or after it has written the result, leaves its message to
\* be delivered again; that of a child process killed under it is acknowledged.
ScannerDies(w) ==
    LET t == scanner[w].slug IN
    /\ scanner[w].step = "scanning"
    /\ UNCHANGED template \/ \E answered \in BOOLEAN : Scanned(t, answered)
    /\ \/ UNCHANGED <<scans, lost>>
       \/ scans' = scans \ {t} /\ lost' = lost \cup {t}
    /\ scanner' = [scanner EXCEPT ![w] = Off]
    /\ UNCHANGED <<clean, registrar, deserted, instance, token, viewer, teardown, killed>>

-----------------------------------------------------------------------------
(* Launches, as far as the template goes: the scheduler asks that there is  *)
(* one, not for its status, and the row of an instance has no image of its  *)
(* own that provision_instance would have scanned.                          *)

Launch(i, t) ==
    /\ instance[i] = Off /\ template[t] # "none"
    /\ instance' = [instance EXCEPT ![i] = [step |-> "running", slug |-> t]]
    /\ UNCHANGED <<clean, template, scans, registrar, scanner, deserted, token, viewer,
                   teardown, lost, killed>>

-----------------------------------------------------------------------------
(* Web UI tokens.                                                           *)

MayView(i) == instance[i].step = "running"

\* The status is read without a lock.
ViewReads(v, i) ==
    /\ viewer[v] = Off /\ MayView(i) /\ Cardinality(token[i]) < MaxTokens
    /\ viewer' = [viewer EXCEPT ![v] = [step |-> "reading", instance |-> i, read |-> instance[i].step]]
    /\ UNCHANGED <<clean, template, scans, registrar, scanner, deserted, instance, token,
                   teardown, lost, killed>>

\* overlaps: the teardown's transaction was open, or over, when the token was committed.
ViewCommits(v) ==
    LET i == viewer[v].instance IN
    /\ viewer[v].step = "reading"
    /\ token' = [token EXCEPT ![i] = @ \cup
          {[n |-> Cardinality(@), revoked |-> FALSE,
            overlaps |-> /\ viewer[v].read = "running"
                         /\ teardown[i] # Off \/ instance[i].step = "terminated"]}]
    /\ viewer' = [viewer EXCEPT ![v] = Off]
    /\ UNCHANGED <<clean, template, scans, registrar, scanner, deserted, instance,
                   teardown, lost, killed>>

ViewFails(v) ==
    /\ viewer[v].step = "reading"
    /\ viewer' = [viewer EXCEPT ![v] = Off]
    /\ UNCHANGED <<clean, template, scans, registrar, scanner, deserted, instance, token,
                   teardown, lost, killed>>

\* The UPDATE of terminate_instance revokes the tokens that are committed by then.
TeardownRevokes(i) ==
    /\ instance[i].step = "running" /\ teardown[i] = Off
    /\ teardown' = [teardown EXCEPT ![i] = [step |-> "revoked", found |-> token[i]]]
    /\ UNCHANGED <<clean, template, scans, registrar, scanner, deserted, instance, token,
                   viewer, lost, killed>>

MUT_Revoked(i, k) == FALSE

Revoked(i, k) == k \in teardown[i].found

TeardownCommits(i) ==
    /\ teardown[i].step = "revoked"
    /\ instance' = [instance EXCEPT ![i].step = "terminated"]
    /\ token' = [token EXCEPT ![i] =
                    {[k EXCEPT !.revoked = @ \/ Revoked(i, k)] : k \in token[i]}]
    /\ teardown' = [teardown EXCEPT ![i] = Off]
    /\ UNCHANGED <<clean, template, scans, registrar, scanner, deserted, viewer, lost,
                   killed>>

TeardownFails(i) ==
    /\ teardown[i].step = "revoked"
    /\ teardown' = [teardown EXCEPT ![i] = Off]
    /\ UNCHANGED <<clean, template, scans, registrar, scanner, deserted, instance, token,
                   viewer, lost, killed>>

\* trigger_emergency_kill_switch writes the status and nothing else of the instance.
KillInstance(i) ==
    /\ instance[i].step = "running"
    /\ instance' = [instance EXCEPT ![i].step = "terminated"]
    /\ killed' = killed \cup {i}
    /\ UNCHANGED <<clean, template, scans, registrar, scanner, deserted, lost, token, viewer,
                   teardown>>

TemplateNext ==
    \/ \E r \in Registrars :
          \/ \E t \in Slugs : CreateLooks(r, t)
          \/ CreateCommits(r) \/ CreateEnqueues(r) \/ CreatorDies(r)
    \/ \E w \in Scanners :
          \/ \E t \in Slugs : ScanPickup(w, t)
          \/ \E answered \in BOOLEAN : ScanEnds(w, answered)
          \/ ScanWriteFails(w) \/ ScannerDies(w)
    \/ \E v \in Viewers :
          \/ \E i \in UiInstances : ViewReads(v, i)
          \/ ViewCommits(v) \/ ViewFails(v)
    \/ \E i \in UiInstances :
          \/ \E t \in Slugs : Launch(i, t)
          \/ TeardownRevokes(i) \/ TeardownCommits(i) \/ TeardownFails(i) \/ KillInstance(i)

TemplateSpec == TemplateInit /\ [][TemplateNext]_templateVars
-----------------------------------------------------------------------------
(* Properties *)

\* Every variable keeps its type.
TemplateTypeOK ==
    /\ template \in [Slugs -> TemplateStatus \cup {"none"}]
    /\ scans \subseteq Slugs /\ deserted \subseteq Slugs /\ lost \subseteq Slugs
    /\ killed \subseteq UiInstances
    /\ \A i \in UiInstances : \A k \in token[i] : k.n \in 0..(MaxTokens + Cardinality(Viewers))

\* No template with findings that block is offered, whatever fails, however often the
\* scan is delivered, unless the scan is mocked.
OfferedIsClean ==
    ScanMock \/ \A t \in Slugs : template[t] = "available" => clean[t]

\* A template that waits for its scan has one coming, unless its registrar ended between
\* the commit and the delay, or a process that scanned it was killed or could not write
\* the result.  A scan that fails or takes too long leaves none waiting (create_template,
\* _scan_template_image_async).
PendingIsAwaited ==
    \A t \in Slugs : template[t] = "pending_scan" =>
        \/ t \in scans \cup deserted \cup lost
        \/ \E r \in Registrars : registrar[r] = [step |-> "committed", slug |-> t]

\* A token that is valid although its instance is terminated was committed while the
\* teardown's transaction was open, or by a request that had read the row before it, or
\* the kill switch terminated the instance (get_web_ui_link, revoke_by_instance,
\* trigger_emergency_kill_switch).
TokenEndsWithInstance ==
    \A i \in UiInstances : instance[i].step = "terminated" =>
        i \in killed \/ \A k \in token[i] : k.revoked \/ k.overlaps

-----------------------------------------------------------------------------
(* Claims of the code's own text that its behaviour contradicts *)

\* scan_template_image: "On error -> retry (max 2), then disable".
FailureIsRetried ==
    \A t \in lost : template[t] = "pending_scan" => t \in scans

\* get_web_ui_link: "Revoked automatically on instance termination."
TokensAreRevoked ==
    \A i \in UiInstances : instance[i].step = "terminated" =>
        \A k \in token[i] : k.revoked
=============================================================================
