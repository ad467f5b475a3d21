----------------------------- MODULE CertIssue -----------------------------
(***************************************************************************)
(* The certificates of the desktop application: the ACME issue that runs   *)
(* as a task of the client runtime, the page that starts, cancels and      *)
(* watches it, the files of the certificate store, and the tunnel editor   *)
(* that refers to a certificate by its place in the list.                  *)
(*                                                                         *)
(* A task is cut at its awaits and at each file it writes; the event loop  *)
(* is one process whose handlers are cut only where they write a second    *)
(* file, since a task (which works on a clone of the store and so does not *)
(* take its lock) or a crash can come in between.  An issue that succeeds  *)
(* makes the certificate that has the name of its task.  One tunnel stands *)
(* for all that may use a certificate.                                     *)
(***************************************************************************)
EXTENDS Integers, Sequences, FiniteSets

CONSTANTS
    CiTasks,        \* the issues that may be submitted; also their certificates
    CiOld,          \* a certificate that exists from the start
    CiKeys,         \* DNS provider keys
    CiRecords,      \* TXT records one issue needs
    CiUsers,        \* bound: what the user does besides, a set of subsets of
                    \* {"keys", "tunnels"}; a behaviour has one of them
    CiNone

ASSUME CiAssumptions == CiRecords \in Nat /\ CiOld \notin CiTasks /\ CiNone # "ok"

VARIABLES
    ciPc,           \* [CiTasks -> where the task is]
    ciLeft,         \* [CiTasks -> authorizations still to look at]
    ciPend,         \* [CiTasks -> TXT records whose id the task holds]
    ciTxt,          \* [CiTasks -> TXT records of the task at the provider]
    ciOut,          \* [CiTasks -> the result of the issue]
    ciLate,         \* tasks whose ISSUE_TIMEOUT has run out
    ciKey,          \* [CiTasks -> the provider key of the request]
    ciRead,         \* [CiTasks -> the index as add_cert read it]
    ciCancel,       \* the one flag all issues share
    ciIndex,        \* certs/index.json
    ciFiles,        \* certificates whose PEM files exist
    ciProviders,    \* providers.json
    ciSecrets,      \* secrets.json
    ciMode,         \* editor mode: 0 list, 1 apply form, 2 key form
    ciIssuing,      \* the page shows an issue in progress
    ciRows,         \* the certificates as the page last listed them
    ciKeyRows,      \* the provider keys as the page last listed them
    ciForm,         \* place in the list chosen in the tunnel editor, or 0
    ciUsed,         \* the certificate the saved tunnel uses, or CiNone
    ciUser,         \* what the user does in this behaviour
    ciUi,           \* a handler between two of its files
    ciNow,          \* the last submitted issue, or CiNone
    ciByUser,       \* the user cancelled the last submitted issue
    ciMeant,        \* the certificate the user saw at the chosen place
    ciUnseen,       \* an issue changed the index after the last listing
    ciMoved,        \* the list was not the chosen one when the form was saved
    ciOverlap,      \* an issue was submitted while an earlier one still ran
    ciStale,        \* an index was saved over a change made after it was read
    ciGone,         \* certificates the user deleted
    ciDebris        \* a TXT record was left by a failed call or a crash

ciTaskVars == <<ciPc, ciLeft, ciPend, ciTxt, ciOut, ciLate, ciKey, ciRead, ciDebris>>
ciStoreVars == <<ciIndex, ciFiles, ciStale, ciGone>>
ciKeyVars == <<ciProviders, ciSecrets>>
ciFormVars == <<ciForm, ciUsed, ciMeant, ciMoved>>
ciPageVars == <<ciMode, ciIssuing, ciRows, ciKeyRows, ciUnseen>>
ciIssueVars == <<ciCancel, ciNow, ciByUser, ciOverlap>>
ciVars == <<ciTaskVars, ciStoreVars, ciKeyVars, ciFormVars, ciPageVars, ciIssueVars, ciUi, ciUser>>

CiCerts == CiTasks \cup {CiOld}
CiIdle == [op |-> "idle", arg |-> CiNone, read |-> <<>>]
CiListed(s) == {s[i] : i \in DOMAIN s}

\* The list s without c: retain, where a list has a certificate at most once.
CiWithout(s, c) ==
    IF c \notin CiListed(s) THEN s
    ELSE LET i == CHOOSE j \in DOMAIN s : s[j] = c
         IN  [j \in 1..(Len(s) - 1) |-> IF j < i THEN s[j] ELSE s[j + 1]]

CiRunning == {t \in CiTasks : ciPc[t] \notin {"unused", "applied"}}

CiInit ==
    /\ ciPc = [t \in CiTasks |-> "unused"]
    /\ ciLeft = [t \in CiTasks |-> CiRecords]
    /\ ciPend = [t \in CiTasks |-> 0] /\ ciTxt = [t \in CiTasks |-> 0]
    /\ ciOut = [t \in CiTasks |-> CiNone] /\ ciLate = {}
    /\ ciKey = [t \in CiTasks |-> CiNone] /\ ciRead = [t \in CiTasks |-> <<>>]
    /\ ciCancel = FALSE /\ ciUser \in CiUsers
    /\ ciIndex = <<CiOld>> /\ ciFiles = {CiOld}
    /\ ciProviders = CiKeys /\ ciSecrets = CiKeys
    /\ ciMode = 0 /\ ciIssuing = FALSE /\ ciRows = <<CiOld>> /\ ciKeyRows = CiKeys
    /\ ciForm = 0 /\ ciUsed = CiNone /\ ciUi = CiIdle
    /\ ciNow = CiNone /\ ciByUser = FALSE /\ ciMeant = CiNone
    /\ ciUnseen = FALSE /\ ciMoved = FALSE
    /\ ciOverlap = FALSE /\ ciStale = FALSE /\ ciGone = {} /\ ciDebris = FALSE

-----------------------------------------------------------------------------
(* The issue task.                                                         *)

\* issue() ends with r: the records it made are removed first, if there are any;
\* a cancellation after the timeout is reported as the timeout.
CiEnds(t, r) ==
    /\ ciPc' = [ciPc EXCEPT ![t] = IF ciPend'[t] > 0 THEN "cleanup" ELSE "posted"]
    /\ ciOut' = [ciOut EXCEPT ![t] = IF r = "cancelled" /\ t \in ciLate
                                     THEN "timeout" ELSE r]

CiGoes(t, pc) == ciPc' = [ciPc EXCEPT ![t] = pc] /\ UNCHANGED ciOut

\* An await that does not watch the flag, then check_cancel.
CiThenCheck(t, pc) ==
    \/ CiEnds(t, "error")
    \/ IF ciCancel THEN CiEnds(t, "cancelled") ELSE CiGoes(t, pc)

\* until_cancel: the result wins when it is there, the flag is looked at otherwise.
CiUntilCancel(t, pc) ==
    \/ CiEnds(t, "error")
    \/ ciCancel /\ CiEnds(t, "cancelled")
    \/ CiGoes(t, pc)

\* The provider and its secret are read; the account and the order follow.
CiPrepare(t) ==
    /\ ciPc[t] = "start" /\ UNCHANGED ciPend
    /\ IF ciKey[t] \notin ciProviders \/ ciKey[t] \notin ciSecrets
       THEN CiEnds(t, "error") ELSE CiThenCheck(t, "write")
    /\ ciKey' = [ciKey EXCEPT ![t] = CiNone]
    /\ UNCHANGED <<ciLeft, ciTxt, ciLate, ciRead, ciDebris, ciStoreVars, ciFormVars>>

\* One authorization: valid already, or its TXT record is written.  A call that
\* fails may have written the record all the same: its id is then unknown.
CiWriteTxt(t) ==
    /\ ciPc[t] = "write"
    /\ \/ /\ ciLeft[t] = 0 /\ CiGoes(t, "wait")
          /\ UNCHANGED <<ciLeft, ciPend, ciTxt, ciDebris>>
       \/ /\ ciLeft[t] > 0 /\ ciCancel /\ UNCHANGED ciPend /\ CiEnds(t, "cancelled")
          /\ UNCHANGED <<ciLeft, ciTxt, ciDebris>>
       \/ /\ ciLeft[t] > 0 /\ ~ciCancel
          /\ ciLeft' = [ciLeft EXCEPT ![t] = @ - 1]
          /\ \E n \in {0, 1} :
                /\ ciPend' = [ciPend EXCEPT ![t] = @ + n]
                /\ ciTxt' = [ciTxt EXCEPT ![t] = @ + n]
          /\ UNCHANGED <<ciPc, ciOut, ciDebris>>
       \/ /\ ciLeft[t] > 0 /\ ~ciCancel /\ UNCHANGED <<ciLeft, ciPend>>
          /\ \E n \in {0, 1} : /\ ciTxt' = [ciTxt EXCEPT ![t] = @ + n]
                               /\ ciDebris' = (ciDebris \/ n = 1)
          /\ CiEnds(t, "error")
    /\ UNCHANGED <<ciLate, ciKey, ciRead, ciStoreVars, ciFormVars>>

\* wait_txt_propagated, the challenges and poll_ready; finalize and poll_certificate.
CiPoll(t) ==
    /\ UNCHANGED ciPend
    /\ \/ ciPc[t] = "wait" /\ CiThenCheck(t, "finalize")
       \/ ciPc[t] = "finalize" /\ CiUntilCancel(t, "files")
    /\ UNCHANGED <<ciLeft, ciTxt, ciLate, ciKey, ciRead, ciDebris, ciStoreVars, ciFormVars>>

\* MUTANT: a file that cannot be written is ignored.
CiWriteFilesIgnored(t) ==
    /\ ciPc[t] = "files" /\ UNCHANGED ciPend
    /\ ciFiles' \in {ciFiles, ciFiles \cup {t}} /\ CiGoes(t, "index")
    /\ UNCHANGED <<ciLeft, ciTxt, ciLate, ciKey, ciRead, ciDebris, ciIndex, ciStale, ciGone, ciFormVars>>

\* add_cert: the PEM files, then the index is read and written with the new
\* certificate in front.  The flag is not looked at any more.
CiWriteFiles(t) ==
    /\ ciPc[t] = "files" /\ UNCHANGED ciPend
    /\ \/ ciFiles' = ciFiles \cup {t} /\ CiGoes(t, "index")
       \/ UNCHANGED ciFiles /\ CiEnds(t, "error")
    /\ UNCHANGED <<ciLeft, ciTxt, ciLate, ciKey, ciRead, ciDebris, ciIndex, ciStale, ciGone, ciFormVars>>

CiReadIndex(t) ==
    /\ ciPc[t] = "index" /\ CiGoes(t, "save")
    /\ ciRead' = [ciRead EXCEPT ![t] = ciIndex]
    /\ UNCHANGED <<ciLeft, ciPend, ciTxt, ciLate, ciKey, ciDebris, ciStoreVars, ciFormVars>>

CiSaveIndex(t) ==
    /\ ciPc[t] = "save" /\ UNCHANGED ciPend
    /\ \/ /\ ciIndex' = <<t>> \o CiWithout(ciRead[t], t)
          /\ ciStale' = (ciStale \/ ciRead[t] # ciIndex)
          /\ ciMoved' = (ciMoved \/ ciForm # 0)
          /\ CiEnds(t, "ok")
       \/ UNCHANGED <<ciIndex, ciStale, ciMoved>> /\ CiEnds(t, "error")
    /\ ciRead' = [ciRead EXCEPT ![t] = <<>>]
    /\ UNCHANGED <<ciLeft, ciTxt, ciLate, ciKey, ciDebris, ciFiles, ciGone, ciForm, ciUsed, ciMeant>>

\* cleanup_dns: every record whose id is known is deleted; a failure is logged.
CiCleanup(t) ==
    /\ ciPc[t] = "cleanup"
    /\ \E gone \in 0..ciPend[t] :
          /\ ciTxt' = [ciTxt EXCEPT ![t] = @ - gone]
          /\ ciDebris' = (ciDebris \/ gone < ciPend[t])
    /\ ciPend' = [ciPend EXCEPT ![t] = 0]
    /\ CiGoes(t, "posted")
    /\ UNCHANGED <<ciLeft, ciLate, ciKey, ciRead, ciStoreVars, ciFormVars>>

CiTaskStep(t) ==
    /\ \/ CiPrepare(t) \/ CiWriteTxt(t) \/ CiPoll(t)
       \/ CiWriteFiles(t) \/ CiReadIndex(t) \/ CiSaveIndex(t) \/ CiCleanup(t)
    /\ ciUnseen' = (ciUnseen \/ ciIndex' # ciIndex)
    /\ UNCHANGED <<ciKeyVars, ciMode, ciIssuing, ciRows, ciKeyRows, ciIssueVars, ciUi>>

\* ISSUE_TIMEOUT: the flag is raised, and the task still awaits its issue.
CiTimeout(t) ==
    /\ t \in CiRunning \ ciLate /\ ciPc[t] # "posted"
    /\ ciLate' = ciLate \cup {t} /\ ciCancel' = TRUE
    /\ UNCHANGED <<ciPc, ciLeft, ciPend, ciTxt, ciOut, ciKey, ciRead, ciDebris, ciStoreVars,
                   ciKeyVars, ciFormVars, ciPageVars, ciNow, ciByUser, ciOverlap, ciUi>>

-----------------------------------------------------------------------------
(* The event loop.                                                         *)

\* cert_bridge::refresh.
CiRefresh == ciRows' = ciIndex' /\ ciKeyRows' = ciProviders' /\ ciUnseen' = FALSE

\* MUTANT: a raised flag alone silences the callback.
CiShowResultOnlyFlag(t) ==
    /\ ciPc[t] = "posted" /\ ciUi = CiIdle
    /\ ciPc' = [ciPc EXCEPT ![t] = "applied"]
    /\ UNCHANGED <<ciStoreVars, ciKeyVars>>
    /\ IF ciCancel THEN UNCHANGED ciPageVars
       ELSE /\ ciIssuing' = FALSE
            /\ IF ciOut[t] = "ok" THEN CiRefresh ELSE UNCHANGED <<ciRows, ciKeyRows, ciUnseen>>
            /\ ciMode' = IF ciOut[t] \in {"ok", "cancelled"} THEN 0 ELSE ciMode
    /\ ciLate' = ciLate \ {t} /\ ciLeft' = [ciLeft EXCEPT ![t] = 0]
    /\ ciOut' = [ciOut EXCEPT ![t] = IF @ = "ok" THEN "ok" ELSE CiNone]
    /\ UNCHANGED <<ciPend, ciTxt, ciKey, ciRead, ciDebris, ciFormVars, ciIssueVars, ciUi>>

\* The callback the task posts to the event loop.
CiShowResult(t) ==
    /\ ciPc[t] = "posted" /\ ciUi = CiIdle
    /\ ciPc' = [ciPc EXCEPT ![t] = "applied"]
    /\ UNCHANGED <<ciStoreVars, ciKeyVars>>
    /\ IF ciCancel /\ ~ciIssuing THEN UNCHANGED ciPageVars
       ELSE /\ ciIssuing' = FALSE
            /\ IF ciOut[t] = "ok" THEN CiRefresh ELSE UNCHANGED <<ciRows, ciKeyRows, ciUnseen>>
            /\ ciMode' = IF ciOut[t] \in {"ok", "cancelled"} THEN 0 ELSE ciMode
    /\ ciLate' = ciLate \ {t} /\ ciLeft' = [ciLeft EXCEPT ![t] = 0]
    /\ ciOut' = [ciOut EXCEPT ![t] = IF @ = "ok" THEN "ok" ELSE CiNone]
    /\ UNCHANGED <<ciPend, ciTxt, ciKey, ciRead, ciDebris, ciFormVars, ciIssueVars, ciUi>>

\* on_cert_apply_submit, in the apply form.
CiSubmit(t, k) ==
    /\ ciUi = CiIdle /\ ciMode = 1 /\ ~ciIssuing /\ ciPc[t] = "unused" /\ k \in ciKeyRows
    /\ ciPc' = [ciPc EXCEPT ![t] = "start"] /\ ciKey' = [ciKey EXCEPT ![t] = k]
    /\ ciCancel' = FALSE /\ ciIssuing' = TRUE
    /\ ciNow' = t /\ ciByUser' = FALSE /\ ciOverlap' = (ciOverlap \/ CiRunning # {})
    /\ UNCHANGED <<ciLeft, ciPend, ciTxt, ciOut, ciLate, ciRead, ciDebris, ciStoreVars, ciKeyVars,
                   ciFormVars, ciMode, ciRows, ciKeyRows, ciUnseen, ciUi>>

\* on_cert_apply_cancel.
CiApplyCancel ==
    /\ ciUi = CiIdle /\ ciMode = 1 /\ ciMode' = 0
    /\ IF ciIssuing
       THEN ciCancel' = TRUE /\ ciIssuing' = FALSE /\ ciByUser' = TRUE
       ELSE UNCHANGED <<ciCancel, ciIssuing, ciByUser>>
    /\ UNCHANGED <<ciTaskVars, ciStoreVars, ciKeyVars, ciFormVars, ciRows, ciKeyRows, ciUnseen,
                   ciNow, ciOverlap, ciUi>>

\* on_cert_add without and with the keys shown, on_cert_key_edit, on_cert_key_cancel.
CiOpenApply ==
    /\ ciUi = CiIdle /\ ciMode = 0 /\ ciKeyRows # {} /\ ciMode' = 1
    /\ UNCHANGED <<ciTaskVars, ciStoreVars, ciKeyVars, ciFormVars, ciIssuing, ciRows, ciKeyRows,
                   ciUnseen, ciIssueVars, ciUi>>

CiOpenKey ==
    /\ ciUi = CiIdle /\ ciMode = 0 /\ ciMode' = 2
    /\ UNCHANGED <<ciTaskVars, ciStoreVars, ciKeyVars, ciFormVars, ciIssuing, ciRows, ciKeyRows,
                   ciUnseen, ciIssueVars, ciUi>>

CiKeyCancel ==
    /\ ciUi = CiIdle /\ ciMode = 2 /\ ciMode' = 0
    /\ UNCHANGED <<ciTaskVars, ciStoreVars, ciKeyVars, ciFormVars, ciIssuing, ciRows, ciKeyRows,
                   ciUnseen, ciIssueVars, ciUi>>

\* The certificate page is opened again.
CiPage ==
    /\ ciUi = CiIdle
    /\ UNCHANGED <<ciTaskVars, ciStoreVars, ciKeyVars, ciFormVars, ciMode, ciIssuing, ciIssueVars, ciUi>>
    /\ CiRefresh

\* upsert_provider, first file: the secret of a key that is new or gets a new one.
CiSaveKey(k) ==
    /\ ciUi = CiIdle /\ ciMode = 2
    /\ ciSecrets' = ciSecrets \cup {k} /\ UNCHANGED ciProviders
    /\ ciUi' = [CiIdle EXCEPT !.op = "provider", !.arg = k]
    /\ UNCHANGED <<ciTaskVars, ciStoreVars, ciFormVars, ciPageVars, ciIssueVars>>

\* delete_provider, first file: the provider goes; nothing if it has gone already.
CiDeleteKey(k) ==
    /\ ciUi = CiIdle /\ ciMode = 0 /\ k \in ciKeyRows \cap ciProviders
    /\ ciProviders' = ciProviders \ {k} /\ UNCHANGED ciSecrets
    /\ ciUi' = [CiIdle EXCEPT !.op = "secret", !.arg = k]
    /\ UNCHANGED <<ciTaskVars, ciStoreVars, ciFormVars, ciPageVars, ciIssueVars>>

\* on_cert_delete: refused for a certificate a tunnel uses; the index is read.
CiDeleteCert(c) ==
    /\ ciUi = CiIdle /\ ciMode = 0 /\ c \in CiListed(ciRows) \cap CiListed(ciIndex)
    /\ c # ciUsed
    /\ ciUi' = [op |-> "index", arg |-> c, read |-> ciIndex]
    /\ UNCHANGED <<ciTaskVars, ciStoreVars, ciKeyVars, ciFormVars, ciPageVars, ciIssueVars>>

\* The second file of a handler; the list is shown again afterwards.
CiUiFinishKey ==
    /\ \/ /\ ciUi.op = "provider"
          /\ ciProviders' = ciProviders \cup {ciUi.arg} /\ ciSecrets' = ciSecrets \cup {ciUi.arg}
          /\ ciMode' = 0
       \/ /\ ciUi.op = "secret" /\ ciSecrets' = ciSecrets \ {ciUi.arg}
          /\ UNCHANGED <<ciProviders, ciMode>>
    /\ ciUi' = CiIdle
    /\ UNCHANGED <<ciTaskVars, ciStoreVars, ciFormVars, ciIssuing, ciIssueVars>>
    /\ CiRefresh

CiUiSaveIndex ==
    /\ ciUi.op = "index" /\ ciUi' = [ciUi EXCEPT !.op = "dir"]
    /\ ciIndex' = CiWithout(ciUi.read, ciUi.arg)
    /\ ciStale' = (ciStale \/ ciUi.read # ciIndex)
    /\ ciMoved' = (ciMoved \/ ciForm # 0) /\ ciGone' = ciGone \cup {ciUi.arg}
    /\ UNCHANGED <<ciTaskVars, ciFiles, ciKeyVars, ciForm, ciUsed, ciMeant, ciPageVars, ciIssueVars>>

\* MUTANT: the list is not shown again.
CiUiRemoveDirNoRefresh ==
    /\ ciUi.op = "dir" /\ ciUi' = CiIdle
    /\ ciFiles' = ciFiles \ {ciUi.arg}
    /\ UNCHANGED <<ciTaskVars, ciIndex, ciStale, ciGone, ciKeyVars, ciFormVars, ciPageVars, ciIssueVars>>

CiUiRemoveDir ==
    /\ ciUi.op = "dir" /\ ciUi' = CiIdle
    /\ ciFiles' = ciFiles \ {ciUi.arg}
    /\ UNCHANGED <<ciTaskVars, ciIndex, ciStale, ciGone, ciKeyVars, ciFormVars, ciMode, ciIssuing, ciIssueVars>>
    /\ CiRefresh

\* A file of a handler cannot be written: an error is shown, the rest is skipped.
CiUiFails ==
    /\ ciUi.op \in {"provider", "secret", "index"} /\ ciUi' = CiIdle
    /\ UNCHANGED <<ciTaskVars, ciStoreVars, ciKeyVars, ciFormVars, ciPageVars, ciIssueVars>>

\* The tunnel editor: a place in the list is chosen, or found again for the
\* certificate the tunnel uses.
CiChoose(i) ==
    /\ ciUi = CiIdle /\ i \in DOMAIN ciRows
    /\ ciForm' = i /\ ciMeant' = ciRows[i] /\ ciMoved' = ciUnseen
    /\ UNCHANGED <<ciTaskVars, ciStoreVars, ciKeyVars, ciUsed, ciPageVars, ciIssueVars, ciUi>>

CiFillForm ==
    /\ ciUi = CiIdle /\ ciForm' \in {i \in DOMAIN ciIndex : ciIndex[i] = ciUsed}
    /\ ciMeant' = ciUsed /\ ciMoved' = FALSE
    /\ UNCHANGED <<ciTaskVars, ciStoreVars, ciKeyVars, ciUsed, ciPageVars, ciIssueVars, ciUi>>

\* The form is saved: the place is looked up in the index as it is now.
CiSaveTunnel ==
    /\ ciUi = CiIdle /\ ciForm # 0 /\ ciForm' = 0
    /\ ciUsed' = IF ciForm \in DOMAIN ciIndex THEN ciIndex[ciForm] ELSE CiNone
    /\ ciMeant' = CiNone /\ ciMoved' = FALSE
    /\ UNCHANGED <<ciTaskVars, ciStoreVars, ciKeyVars, ciPageVars, ciIssueVars, ciUi>>

\* The application is killed and started again: only files and records are left.
CiCrash ==
    /\ ciPc' = [t \in CiTasks |-> IF t \in CiRunning THEN "applied" ELSE ciPc[t]]
    /\ ciDebris' = (ciDebris \/ \E t \in CiRunning : ciTxt[t] > 0)
    /\ ciPend' = [t \in CiTasks |-> 0]
    /\ ciCancel' = FALSE /\ ciNow' = CiNone /\ ciByUser' = FALSE /\ ciIssuing' = FALSE /\ ciMode' = 0
    /\ ciUi' = CiIdle /\ ciForm' = 0 /\ ciMeant' = CiNone /\ ciMoved' = FALSE
    /\ ciLate' = {} /\ ciKey' = [t \in CiTasks |-> CiNone]
    /\ ciRead' = [t \in CiTasks |-> <<>>]
    /\ ciLeft' = [t \in CiTasks |-> IF t \in CiRunning THEN 0 ELSE ciLeft[t]]
    /\ ciOut' = [t \in CiTasks |-> IF ciOut[t] = "ok" THEN "ok" ELSE CiNone]
    /\ UNCHANGED <<ciTxt, ciStoreVars, ciKeyVars, ciUsed, ciOverlap>>
    /\ CiRefresh

CiNext ==
    /\ \/ \E t \in CiTasks : CiTaskStep(t) \/ CiTimeout(t) \/ CiShowResult(t)
       \/ \E t \in CiTasks, k \in CiKeys : CiSubmit(t, k)
       \/ CiOpenApply \/ CiApplyCancel \/ CiPage \/ CiCrash
       \/ \E c \in CiCerts : CiDeleteCert(c)
       \/ CiUiSaveIndex \/ CiUiRemoveDir \/ CiUiFails
       \/ /\ "keys" \in ciUser
          /\ \/ \E k \in CiKeys : CiSaveKey(k) \/ CiDeleteKey(k)
             \/ CiOpenKey \/ CiKeyCancel \/ CiUiFinishKey
       \/ /\ "tunnels" \in ciUser
          /\ \/ \E i \in 1..Cardinality(CiCerts) : CiChoose(i)
             \/ CiFillForm \/ CiSaveTunnel
    /\ UNCHANGED ciUser

CiSpec == CiInit /\ [][CiNext]_ciVars

-----------------------------------------------------------------------------
(* Properties.                                                             *)

\* The types of the variables.
CiTypeOK ==
    /\ \A t \in CiTasks :
          /\ ciPc[t] \in {"unused", "start", "write", "wait", "finalize", "files", "index",
                          "save", "cleanup", "posted", "applied"}
          /\ ciOut[t] \in {CiNone, "ok", "error", "cancelled", "timeout"}
          /\ ciPend[t] \in 0..CiRecords /\ ciTxt[t] \in 0..CiRecords
    /\ ciFiles \subseteq CiCerts /\ CiListed(ciIndex) \subseteq CiCerts
    /\ ciProviders \subseteq CiKeys /\ ciSecrets \subseteq CiKeys
    /\ ciMode \in 0..2 /\ ciUsed \in CiCerts \cup {CiNone}

\* A provider in providers.json has its secret in secrets.json, whatever file could
\* not be written and whenever the application was killed: upsert_provider writes
\* the secret first, delete_provider removes it last.
CiProviderHasSecret == ciProviders \subseteq ciSecrets

\* A certificate in the index has its files, and one that was issued, and that the
\* user did not delete, is in the index; unless two writers of the index overlapped,
\* which the clone of the store that the issue works on allows.
CiIndexTrue ==
    \/ ciStale
    \/ /\ CiListed(ciIndex) \subseteq ciFiles
       /\ \A t \in CiTasks : ciOut[t] = "ok" => t \in CiListed(ciIndex) \cup ciGone

\* The page shows an issue in progress exactly while the result of the last
\* submitted one is to come and the user has not cancelled it; unless that one was
\* submitted while an earlier, cancelled one still ran: the flag they share was
\* lowered again, and the earlier issue goes on and ends the display of the later.
CiDisplayTrue ==
    \/ ciOverlap
    \/ ciIssuing <=> ciNow \in CiRunning /\ ~ciByUser

\* An issue that has ended has left no TXT record behind, however it ended; unless a
\* call to the provider failed or the application was killed.
CiTxtRemoved ==
    \A t \in CiTasks : ciPc[t] \in {"posted", "applied"} => ciTxt[t] = 0 \/ ciDebris

\* The certificate a saved tunnel uses has its files: it cannot be deleted any more,
\* and one that was deleted while it was chosen in the open form is not used.
CiUsedExists == ciStale \/ ciUsed = CiNone \/ ciUsed \in ciFiles

\* What issues, edits and deletions leave behind, on disk and at the provider, is
\* complete, whatever fails or is cancelled on the way.
CiStoreTrue == CiTypeOK /\ CiProviderHasSecret /\ CiIndexTrue /\ CiTxtRemoved /\ CiUsedExists

\* The form of a tunnel is saved with the certificate the user saw at the chosen
\* place; unless the index changed while the form was open, or an issue the user had
\* cancelled added its certificate without the list being shown again.
CiChoiceHonoured ==
    [][ciForm # 0 /\ ciForm' = 0 /\ ciUsed' # ciUsed => ciUsed' = ciMeant \/ ciMoved]_ciVars
=============================================================================
