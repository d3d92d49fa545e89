------------------------------ MODULE DemoApp ------------------------------
(***************************************************************************)
(* The pages of the demo (demo/src/App.tsx, EmployerDashboard.tsx,         *)
(* EmployeeDashboard.tsx, BatchCreateStreams.tsx and their hooks) on top   *)
(* of the SDK.  Each page keeps its own wallet connection, its own busy    *)
(* flags and its own list of streams; calls of one page overlap whenever   *)
(* no flag forbids it, and one ends in the middle of another.              *)
(***************************************************************************)
EXTENDS SdkClient

CONSTANTS
    Worlds,        \* pages that are open, and the streams there are
    MAX_SCAN,      \* ids a dashboard looks at, 200 in the code
    MaxRows,       \* bound: rows of the batch form
    MaxAsked,      \* bound: transactions begun
    MaxMounts      \* bound: times each panel is mounted

Pages == {"employer", "employee", "demo", "batch"}

StreamRecord == [employer: {Me, Other}, employee: {Me, Other}, status: Statuses]

\* The streams a page shows, by id, with their statuses.
Lists == UNION {[ids -> Statuses] : ids \in SUBSET (1..MaxStreams)}

\* What a call is about.
Subjects == Nat \cup {Null}

CallOps ==
    {"connect", "scan", "pause", "resume", "cancel", "topup", "withdraw", "lookup", "create", "batch"}

CallRecord ==
    [page: Pages, mount: Nat, op: CallOps,
     step: {"wallet", "build", "sign", "poll", "count", "get", "claimable", "refresh", "earned", "load",
            "done", "rejected", "timeout"},
     stream: Subjects, then: {"refresh", "count", "load", "done"}, rows: Nat, valid: BOOLEAN,
     found: Lists, low: Nat, fresh: BOOLEAN, left: Int, slow: BOOLEAN, wake: Nat, polls: Nat,
     tx: {"none", "pending", "success", "failed"}]

ASSUME DemoAssumption ==
    /\ {MaxStreams, MAX_SCAN} \subseteq Nat
    /\ Null \notin CallRecord
    /\ \A w \in Worlds :
          w.open \subseteq Pages /\ w.ledger \in Seq(StreamRecord) /\ Len(w.ledger) <= MaxStreams

VARIABLES
    pages,     \* what each open page shows
    asked      \* transactions begun so far

demo_vars == <<sdk_vars, pages, asked>>

NewPage(mount, connected) ==
    [mount |-> mount, connected |-> connected, loading |-> FALSE, acting |-> Null,
     shown |-> <<>>, modal |-> Null, topUp |-> Null, detail |-> Null, rows |-> 1]

DemoInit ==
    \E w \in Worlds :
        /\ ledger = w.ledger
        /\ takes_amount = w.takes_amount
        /\ pages = [p \in w.open |-> NewPage(1, FALSE)]
        /\ calls = [c \in Slots |-> Null]
        /\ pollers = {}
        /\ asked = 0

Dashboards == {"employer", "employee"}

(***************************************************************************)
(* Calls and the flags they hold.                                          *)
(***************************************************************************)

\* The await that follows the confirmation of a transaction.
AfterConfirmation(page, op) ==
    IF page \in Dashboards THEN "refresh"
    ELSE CASE op = "create" -> "count"
           [] op = "withdraw" -> "load"
           [] OTHER -> "done"

Call(page, op, step, stream) ==
    [page |-> page, mount |-> pages[page].mount, op |-> op, step |-> step, stream |-> stream,
     then |-> AfterConfirmation(page, op), rows |-> 1, valid |-> TRUE, found |-> <<>>, low |-> 0,
     fresh |-> FALSE, left |-> -LAG - 1, slow |-> FALSE, wake |-> 0, polls |-> 0, tx |-> "none"]

\* A dashboard's actions hold actionLoading, everything else holds loading.
IsAction(call) == call.page \in Dashboards /\ call.op \notin {"connect", "scan"}

Over(call) == call.step \in {"done", "rejected", "timeout"}

Free == {c \in Slots : calls[c] = Null}

\* The page's part in starting a call: setLoading(true) or setActionLoading(key).
Busy(pg, call) ==
    IF IsAction(call) THEN [pg EXCEPT !.acting = <<call.op, call.stream>>] ELSE [pg EXCEPT !.loading = TRUE]

\* The finally clause.
Finally(pg, call) == IF IsAction(call) THEN [pg EXCEPT !.acting = Null] ELSE [pg EXCEPT !.loading = FALSE]

\* Mutant: the flag is cleared at the end of try, and a rejection skips it.
Caught_early(pg, call) == pg

\* The catch clause shows the error, and finally runs.
Caught(pg, call) == Finally(pg, call)

\* What follows a call that went through: the batch form starts over, and the
\* top-up form closes, whichever stream it is open for by then.
Succeeded(pg, call) ==
    CASE call.op = "batch" -> [Finally(pg, call) EXCEPT !.rows = 1]
      [] call.op = "topup" -> [Finally(pg, call) EXCEPT !.topUp = Null]
      [] OTHER -> Finally(pg, call)

\* The states set by a page that has since been taken down are not seen.
Set(call, pg) == pages' = IF pages[call.page].mount = call.mount THEN [pages EXCEPT ![call.page] = pg] ELSE pages

\* A call goes on as `next`, with its page as `pg`, and ends with its handler.  The
\* slot stays taken while a transaction is out.
GoOn(c, next, pg) ==
    /\ calls' = [calls EXCEPT ![c] = IF next.step = "done" THEN Null ELSE Kept(next)]
    /\ Set(next, CASE next.step = "done" -> Succeeded(pg, next)
                   [] next.step \in {"rejected", "timeout"} -> Caught(pg, next)
                   [] next.step = "load" -> Busy(pg, next)
                   [] OTHER -> pg)

Take(call) ==
    /\ \E c \in Free : calls' = [calls EXCEPT ![c] = call]
    /\ asked' = IF call.step = "build" THEN asked + 1 ELSE asked
    /\ asked' <= MaxAsked
    /\ UNCHANGED <<ledger, pollers, takes_amount>>

Start(call) == Take(call) /\ pages' = [pages EXCEPT ![call.page] = Busy(@, call)]

At(c, step) == calls[c] # Null /\ calls[c].step = step

PageOf(c) == pages[calls[c].page]

(***************************************************************************)
(* The awaits of a transaction: client.<method>, freighterSignTransaction, *)
(* client.submitTransaction.                                               *)
(***************************************************************************)

Transact(c, step, outcomes) ==
    /\ At(c, step)
    /\ \E next \in outcomes : GoOn(c, next, PageOf(c))
    /\ UNCHANGED <<ledger, pollers, takes_amount>>

buildTx(c) == Transact(c, "build", build(calls[c]))
submitTransaction(c) == Transact(c, "sign", signAndSend(calls[c]))
poll(c) == calls[c] # Null /\ calls[c].wake = 0 /\ Transact(c, "poll", getTransaction(calls[c]))

(***************************************************************************)
(* Reads.                                                                  *)
(***************************************************************************)

\* loadDashboard begins: the list is emptied.
Scan(page) == Call(page, "scan", "count", Null)

Scanning(pg) == [pg EXCEPT !.loading = TRUE, !.shown = <<>>]

\* isFreighterConnected and connectFreighter: not installed, access denied or a
\* key.  A dashboard's effect on the new key starts its scan.
connectAnswers(c) ==
    /\ At(c, "wallet")
    /\ \/ GoOn(c, Rejected(calls[c]), PageOf(c))
       \/ LET page == calls[c].page
              keyed == [PageOf(c) EXCEPT !.connected = TRUE]
          IN  IF page \in Dashboards /\ calls[c].mount = pages[page].mount
              THEN calls' = [calls EXCEPT ![c] = Scan(page)] /\ Set(calls[c], Scanning(keyed))
              ELSE GoOn(c, [calls[c] EXCEPT !.step = "done"], keyed)
    /\ UNCHANGED <<ledger, pollers, takes_amount>>

\* client.streamCount in loadDashboard: the scan begins at the count less one.
countAnswers(c) ==
    /\ At(c, "count") /\ calls[c].op = "scan"
    /\ \E total \in streamCount :
        GoOn(c, CASE total = Null -> Rejected(calls[c])
                  [] total = 0 -> [calls[c] EXCEPT !.step = "done"]
                  [] OTHER -> [calls[c] EXCEPT !.step = "get", !.stream = total - 1,
                                               !.low = Max({0, total - MAX_SCAN})],
             PageOf(c))
    /\ UNCHANGED <<ledger, pollers, takes_amount>>

\* client.streamCount in createStream, which loads the count less one.
newCountAnswers(c) ==
    /\ At(c, "count") /\ calls[c].op = "create"
    /\ \E total \in streamCount :
        GoOn(c, CASE total = Null -> Rejected(calls[c])
                  [] total = 0 -> [calls[c] EXCEPT !.step = "done"]
                  [] OTHER -> [calls[c] EXCEPT !.step = "load", !.stream = total - 1],
             PageOf(c))
    /\ UNCHANGED <<ledger, pollers, takes_amount>>

Onward(call) ==
    IF call.stream > call.low THEN [call EXCEPT !.step = "get", !.stream = @ - 1]
    ELSE [call EXCEPT !.step = "done"]

Role(page, stream) == IF page = "employer" THEN stream.employer ELSE stream.employee

With(streams, id, status) ==
    [i \in DOMAIN streams \cup {id} |-> IF i = id THEN status ELSE streams[i]]

\* Mutant: a poll is started without a look at the handles.
HasHandle_never(page, mount, stream) == FALSE

\* pollHandles.current[key]
HasHandle(page, mount, stream) == \E p \in Loops(page, mount, stream) : p.active

Poller(call) == {NewPoller(call.page, call.mount, call.stream) :
                     h \in {FALSE} \cap {HasHandle(call.page, call.mount, call.stream)}}

\* One turn of loadDashboard's loop: a stream that cannot be read is skipped, the
\* wallet's own are shown, and the employee's page watches what they earn.
getAnswers(c) ==
    LET call == calls[c] IN
    /\ At(c, "get")
    /\ \E stream \in getStream(call.stream) :
        IF stream = Null \/ Role(call.page, stream) # Me
        THEN GoOn(c, Onward(call), PageOf(c)) /\ UNCHANGED pollers
        ELSE LET found == With(call.found, call.stream, stream.status)
                 seen == [call EXCEPT !.found = found]
                 watches == call.page = "employee"
             IN  /\ GoOn(c, IF watches /\ stream.status # "Active" THEN [seen EXCEPT !.step = "claimable"]
                            ELSE Onward(seen),
                         [PageOf(c) EXCEPT !.shown = found])
                 /\ pollers' = IF watches /\ stream.status = "Active" THEN pollers \cup Poller(call) ELSE pollers
    /\ UNCHANGED <<ledger, takes_amount>>

\* client.claimable, once: the scan goes on even when it fails.
claimableAnswers(c) ==
    /\ At(c, "claimable")
    /\ GoOn(c, Onward(calls[c]), PageOf(c))
    /\ UNCHANGED <<ledger, pollers, takes_amount>>

\* client.getStream after a dashboard's action: only the affected stream changes.
refreshAnswers(c) ==
    LET call == calls[c] IN
    /\ At(c, "refresh")
    /\ \E stream \in getStream(call.stream) :
        IF stream = Null THEN GoOn(c, Rejected(call), PageOf(c))
        ELSE GoOn(c, [call EXCEPT !.step = IF call.op = "withdraw" THEN "earned" ELSE "done"],
                  [PageOf(c) EXCEPT !.shown =
                      IF call.stream \in DOMAIN @ THEN [@ EXCEPT ![call.stream] = stream.status] ELSE @])
    /\ UNCHANGED <<ledger, pollers, takes_amount>>

\* client.claimable after an employee's withdrawal.
earnedAnswers(c) ==
    /\ At(c, "earned")
    /\ \E step \in {"done", "rejected"} : GoOn(c, [calls[c] EXCEPT !.step = step], PageOf(c))
    /\ UNCHANGED <<ledger, pollers, takes_amount>>

\* loadStream of usePayStream; it catches its own errors.
loadAnswers(c) ==
    LET call == calls[c] IN
    /\ At(c, "load")
    /\ \E stream \in getStream(call.stream) :
        IF stream = Null THEN GoOn(c, Rejected(call), PageOf(c)) /\ UNCHANGED pollers
        ELSE /\ GoOn(c, [call EXCEPT !.step = "done"],
                     [PageOf(c) EXCEPT !.shown = With(@, call.stream, stream.status)])
             /\ pollers' = pollers \cup Poller(call)
    /\ UNCHANGED <<ledger, takes_amount>>

(***************************************************************************)
(* What the user may do.                                                   *)
(***************************************************************************)

\* What passes validateStreamForm, or validateRow, the contract accepts or not: it
\* wants a whole rate, more seconds of it funded, and a key for the employee.
CheckedForms == BOOLEAN

connect(page) ==
    /\ page # "demo"
    /\ ~pages[page].loading /\ ~pages[page].connected
    /\ Start(Call(page, "connect", "wallet", Null))

\* The header's button, which works after the connection too.  Its dialog may be
\* closed before the wallet answers, so it keeps the user from nothing.
handleWalletConnect ==
    /\ ~pages["demo"].loading
    /\ Start(Call("demo", "connect", "wallet", Null))

refresh(page) ==
    /\ page \in Dashboards
    /\ pages[page].connected /\ ~pages[page].loading /\ pages[page].modal = Null
    /\ Take(Scan(page))
    /\ pages' = [pages EXCEPT ![page] = Scanning(@)]

\* The buttons a card renders for a status.
ShowsAction(op, status) ==
    CASE op \in {"withdraw", "pause"} -> status = "Active"
      [] op = "resume" -> status = "Paused"
      [] OTHER -> status \in {"Active", "Paused"}

\* anyBusy: the employer's page hands its cards no loading, and tells only the
\* card of the action's own stream that it is running.
AnyBusy(page, s) ==
    \/ page # "employer" /\ pages[page].loading
    \/ pages[page].acting # Null /\ pages[page].acting[2] = s

Clickable(page, op, s) ==
    /\ pages[page].connected /\ pages[page].modal = Null
    /\ s \in DOMAIN pages[page].shown
    /\ ShowsAction(op, pages[page].shown[s])
    /\ ~AnyBusy(page, s)

Transaction(page, op, s) == Call(page, op, "build", s)

handleAction(op, s) ==
    /\ Clickable("employer", op, s)
    /\ Start(Transaction("employer", op, s))

\* setCancelStream: the modal opens, and is closed without a cancellation.
openCancel(s) ==
    /\ Clickable("employer", "cancel", s)
    /\ pages' = [pages EXCEPT !["employer"].modal = s]
    /\ UNCHANGED <<sdk_vars, asked>>

closeCancel ==
    /\ pages["employer"].modal # Null
    /\ pages' = [pages EXCEPT !["employer"].modal = Null]
    /\ UNCHANGED <<sdk_vars, asked>>

\* onConfirm: the modal looks at no flag and at no status.
confirmCancel ==
    LET call == Transaction("employer", "cancel", pages["employer"].modal) IN
    /\ pages["employer"].modal # Null
    /\ Take(call)
    /\ pages' = [pages EXCEPT !["employer"] = [Busy(@, call) EXCEPT !.modal = Null]]

\* onShowTopUp
toggleTopUp(s) ==
    /\ Clickable("employer", "topup", s)
    /\ pages' = [pages EXCEPT !["employer"].topUp = IF @ = s THEN Null ELSE s]
    /\ UNCHANGED <<sdk_vars, asked>>

\* handleTopUpSubmit: the form is part of its stream's card.
handleTopUp ==
    /\ pages["employer"].topUp \in DOMAIN pages["employer"].shown
    /\ pages["employer"].acting = Null /\ pages["employer"].modal = Null
    /\ Start(Transaction("employer", "topup", pages["employer"].topUp))

\* The demo shows its own panel, and not the details of one stream.
OnPanel == pages["demo"].detail = Null

\* The employee's card, and the demo's when the wallet is the employee's.
withdraw(page, s) ==
    /\ Clickable(page, "withdraw", s)
    /\ page = "demo" => OnPanel /\ ledger[s].employee = Me
    /\ Start(Transaction(page, "withdraw", s))

\* The buttons StreamDetailPage renders: those of the wallet's role, or all of
\* them without a wallet.
DetailShows(op, s) ==
    /\ ~pages["demo"].connected \/ (IF op = "withdraw" THEN ledger[s].employee ELSE ledger[s].employer) = Me
    /\ ShowsAction(op, pages["demo"].shown[s])

\* onWithdraw; without a wallet the hook returns at once.  The employer's buttons
\* call a hook of App's own that was seeded before the wallet was connected, so
\* they return at once as well.
detailWithdraw(s) ==
    /\ pages["demo"].detail = s /\ s \in DOMAIN pages["demo"].shown
    /\ DetailShows("withdraw", s)
    /\ ~pages["demo"].loading /\ pages["demo"].connected
    /\ Start(Transaction("demo", "withdraw", s))

navigateBack ==
    /\ ~OnPanel
    /\ pages' = [pages EXCEPT !["demo"].detail = Null]
    /\ UNCHANGED <<sdk_vars, asked>>

handleLookup(s) ==
    /\ OnPanel /\ ~pages["demo"].loading
    /\ Start(Call("demo", "lookup", "load", s))

\* handleHash: the address bar waits for nothing.  The list it searches is the
\* one of the first render, which is empty.
handleHash(s) ==
    LET call == Call("demo", "lookup", "load", s) IN
    /\ pages["demo"].detail # s
    /\ Take(call)
    /\ pages' = [pages EXCEPT !["demo"] = [Busy(@, call) EXCEPT !.detail = s]]

handleCreate(form) ==
    /\ OnPanel
    /\ pages["demo"].connected /\ ~pages["demo"].loading
    /\ Start([Transaction("demo", "create", Null) EXCEPT !.valid = form])

addRow ==
    /\ pages["batch"].connected /\ ~pages["batch"].loading
    /\ pages["batch"].rows < MaxRows
    /\ pages' = [pages EXCEPT !["batch"].rows = @ + 1]
    /\ UNCHANGED <<sdk_vars, asked>>

removeRow ==
    /\ pages["batch"].connected /\ ~pages["batch"].loading
    /\ pages["batch"].rows > 1
    /\ pages' = [pages EXCEPT !["batch"].rows = @ - 1]
    /\ UNCHANGED <<sdk_vars, asked>>

handleSubmit(form) ==
    /\ pages["batch"].connected /\ ~pages["batch"].loading
    /\ Start([Transaction("batch", "batch", Null) EXCEPT !.valid = form, !.rows = pages["batch"].rows])

\* A panel fails to render and is mounted again by the retry button of its
\* ErrorBoundary, with the demo's key by then.  The old panel's pollers are
\* stopped; the calls it has under way go on.
retry(page) ==
    LET seeded == "demo" \in DOMAIN pages /\ pages["demo"].connected
        fresh == NewPage(pages[page].mount + 1, seeded)
        scans == seeded /\ page \in Dashboards
    IN  /\ page # "demo" /\ pages[page].mount < MaxMounts[page]
        /\ pages' = [pages EXCEPT ![page] = IF scans THEN Scanning(fresh) ELSE fresh]
        /\ IF scans THEN \E c \in Free : calls' = [calls EXCEPT ![c] = [Scan(page) EXCEPT !.mount = fresh.mount]]
           ELSE UNCHANGED calls
        /\ pollers' = Unsubscribed(page, pages[page].mount)
        /\ UNCHANGED <<ledger, takes_amount, asked>>

(***************************************************************************)
(* The specification.                                                      *)
(***************************************************************************)

Open(page) == page \in DOMAIN pages

CallStep ==
    /\ \E c \in Slots :
        \/ buildTx(c) \/ submitTransaction(c) \/ poll(c)
        \/ connectAnswers(c) \/ countAnswers(c) \/ newCountAnswers(c) \/ getAnswers(c)
        \/ claimableAnswers(c) \/ refreshAnswers(c) \/ earnedAnswers(c) \/ loadAnswers(c)
    /\ UNCHANGED asked

PageStep == \E page \in DOMAIN pages : connect(page) \/ refresh(page) \/ retry(page)

EmployerStep ==
    /\ Open("employer")
    /\ \/ \E s \in Ids, op \in {"pause", "resume"} : handleAction(op, s)
       \/ \E s \in Ids : openCancel(s) \/ toggleTopUp(s)
       \/ closeCancel \/ confirmCancel \/ handleTopUp

EarnerStep == \E page \in DOMAIN pages \cap {"employee", "demo"}, s \in Ids : withdraw(page, s)

DemoStep ==
    /\ Open("demo")
    /\ \/ \E s \in Ids : handleLookup(s) \/ handleHash(s) \/ detailWithdraw(s)
       \/ navigateBack \/ handleWalletConnect
       \/ \E form \in CheckedForms : handleCreate(form)

BatchStep ==
    /\ Open("batch")
    /\ addRow \/ removeRow \/ \E form \in CheckedForms : handleSubmit(form)

NetworkStep ==
    /\ \/ \E c \in Slots : include(c)
       \/ \E i \in Ids : elsewhere(i)
       \/ \E c \in Slots : forget(c)
       \/ \E p \in pollers : tickEnds(p)
       \/ sdkTick
    /\ UNCHANGED <<pages, asked>>

DemoNext == CallStep \/ PageStep \/ EmployerStep \/ EarnerStep \/ DemoStep \/ BatchStep \/ NetworkStep

DemoSpec == DemoInit /\ [][DemoNext]_demo_vars

(***************************************************************************)
(* Properties.                                                             *)
(***************************************************************************)

Running(c) == calls[c] # Null /\ ~Over(calls[c])

\* "Transaction not confirmed after timeout" can be relied on when the user took
\* longer over the signature than the network lags: the twenty polls of
\* submitTransaction cover the time bound buildTx gave the transaction, so a
\* retry after the message is not a second payment.
TimeoutIsFinal ==
    \A c \in Slots :
        calls[c] # Null /\ calls[c].step = "timeout" /\ calls[c].slow => calls[c].tx # "success"

\* A page is never left busy: a flag that disables its buttons is held by a call
\* of the page that is still running, whatever calls overlapped and failed.
BusyMeansWorking ==
    \A page \in DOMAIN pages :
        LET mine == {c \in Slots : Running(c) /\ calls[c].page = page /\ calls[c].mount = pages[page].mount} IN
        /\ pages[page].loading => \E c \in mine : ~IsAction(calls[c])
        /\ pages[page].acting # Null =>
               \E c \in mine : IsAction(calls[c]) /\ <<calls[c].op, calls[c].stream>> = pages[page].acting

\* However the lookups, links, scans and withdrawals of a page overlap, it runs one
\* loop of pollClaimable for a stream at most, and so does what is left of a panel
\* that was taken down, whose late calls share the emptied handles.
OnePollerPerMount ==
    \A p, q \in pollers :
        p.active /\ q.active /\ <<p.page, p.mount, p.stream>> = <<q.page, q.mount, q.stream>> => p = q

-----------------------------------------------------------------------------
(* What a comment says and the code does not do.                           *)

\* useEmployeeDashboard.ts:37, "Clean up pollers on unmount": a loop that runs is one
\* of the panel as it is mounted.  A scan under way at the unmount finds the handles
\* emptied (:40-41) and starts a loop (:89-90) that nobody ends.
PollersEndWithMount == \A p \in pollers : p.active => p.mount = pages[p.page].mount

=============================================================================
