------------------------------- MODULE MCBackup -------------------------------
(***************************************************************************)
(* Small instances of the backup agent's parts, of the archive's restore   *)
(* and of its download tickets.  They share no state that their properties *)
(* tell apart, so each instance runs one of them and leaves the others     *)
(* without work.                                                           *)
(***************************************************************************)
EXTENDS BackupRuns, BackupAgenda, BackupCopies, BackupDownloads, BackupRestore,
    BackupTickets, TLC

\* BackupRuns: two loops of two agents.
MCLoops   == {"A1", "B1"}
MCAgentOf == "A1" :> "A" @@ "B1" :> "B"
Serve(x, y) == "A1" :> x @@ "B1" :> y
Ledger(s, k, d, m, ks, f) ==
    [serves |-> s, asks |-> k, days |-> d, max |-> m, kinds |-> ks, faults |-> f]
NoRuns == Ledger(<<>>, {}, 1, 0, {}, 0)
RunPlans ==
    {NoRuns,
     Ledger(Serve("dump", "requested"), {"dump"}, 1, 3, {"record", "crash", "lock"}, 1),
     Ledger(Serve("dump", "drill"), {}, 2, 3, {"work"}, 1),
     Ledger(Serve("dump", "dump"), {}, 1, 2, {"lose", "record"}, 2),
     Ledger(Serve("requested", "requested"), {"dump", "drill"}, 1, 2, {"work", "crash"}, 1)}

\* BackupAgenda: a protective job with a floor, one without a document vocabulary of its own,
\* one that may be switched off, one the agent cannot run.
Wall(ts, ds) == Doc("times", ts, ds, 0, "absent", <<>>, <<>>)
Every(n)     == Doc("interval", <<>>, <<>>, n, "absent", <<>>, <<>>)
Off          == Doc("times", <<>>, <<>>, 0, "false", <<>>, <<>>)
Relic(t, w)  == Doc("none", <<>>, <<>>, 0, "absent", t, w)
Agenda(p, f, c, e, ds, l) ==
    [protective |-> p, floor |-> f, capable |-> c, env |-> e, docs |-> ds, last |-> l,
     starts |-> TRUE, edits |-> 2, until |-> 7]
Daily1  == Timing({1}, {}, 0, "env")
Weekly0 == Timing({0}, {2}, 0, "env")
Nothing == Timing({}, {}, 0, "env")
NoAgenda == [Agenda(TRUE, 1, FALSE, Nothing, {}, Never) EXCEPT !.starts = FALSE, !.edits = 0, !.until = 0]
AgendaPlans ==
    {NoAgenda,
     Agenda(TRUE, 2, TRUE, Daily1, {Wall(<<0, 1>>, <<0, 2>>), Wall(<<1>>, <<1, 1>>), Relic(<<0>>, <<1>>)}, -5),
     Agenda(TRUE, 1, TRUE, Weekly0, {Every(2), Wall(<<BadTime>>, <<0>>), Relic(<<1>>, <<>>)}, -1),
     Agenda(FALSE, 1, TRUE, Nothing, {Wall(<<1>>, <<0>>), Off}, Never),
     Agenda(TRUE, 1, FALSE, Weekly0, {Every(1)}, 0)}

NoCopies  == [does |-> "nothing", skew |-> 0, faults |-> 0]
CopyPlans == {NoCopies, [does |-> "zip", skew |-> 0, faults |-> 2]}
             \cup {[does |-> "mirror", skew |-> k, faults |-> 1] : k \in {-2, 0, 2}}

NoAsks    == [asks |-> <<>>, keyOf |-> {}]
AskPlans  == {NoAsks} \cup {[asks |-> <<"owner", "owner", "admin">>, keyOf |-> k] : k \in {{}, {"admin"}}}

\* BackupRestore and BackupTickets.
LinkA == [id |-> 91, url |-> "a"]
LinkB == [id |-> 92, url |-> "b"]
NoteN == [id |-> 95, key |-> 95]
Packed(ls, ns, fs, files) == [links |-> ls, notes |-> ns, folders |-> fs, files |-> files, sums |-> files]
Images(ids) == {Key("link", i) : i \in ids}
Media(ids)  == {Key("note", i) : i \in ids}

Two   == Packed({LinkA, LinkB}, {NoteN}, <<>>, Images({91}) \cup Media({95}))
One   == Packed({LinkA}, {NoteN}, <<>>, Images({91}) \cup Media({95}))
Holed == Packed({LinkA}, {NoteN}, <<>>, Images({91}))
Bare  == Packed({LinkA}, {NoteN}, <<>>, Media({95}))
Rows(n) == [1..n -> [id : 1..n, parent : 0..(n + 1)]]

Case(a, lv, ms, bs, e, f, o) ==
    [archive |-> a, live |-> lv, modes |-> ms, backends |-> bs, edits |-> e, faults |-> f, others |-> o]
Live(img) == <<[url |-> "a", img |-> img]>>

NoRestore == Case(Packed({}, {}, <<>>, {}), <<>>, {}, {}, 0, 0, 0)
RestorePlans ==
    {NoRestore,
     Case(Two, <<>>, {"skip"}, {"b1", "b2"}, 0, 1, 0),
     Case(One, Live(FALSE), {"skip", "duplicate"}, {"b1", "b2"}, 1, 1, 1),
     Case(One, Live(TRUE), {"skip", "wipe"}, {"b1"}, 1, 2, 2),
     Case(Bare, <<>>, {"skip", "wipe", "duplicate", "export"}, {"b1"}, 1, 1, 1),
     Case(Two, <<[url |-> "c", img |-> TRUE]>>, {"skip", "export"}, {"b1"}, 0, 0, 0),
     Case(Holed, <<>>, {"skip"}, {"b1"}, 0, 0, 0)}
    \cup {Case(Packed({}, {}, fs, {}), <<>>, {"skip"}, {"b1"}, 0, 0, 0) : fs \in Rows(3)}

\* Two sessions of one account and one of another; more tickets than the table or an account holds.
Desk(n, b, r) == [userOf |-> "s1" :> "u1" @@ "s2" :> "u1" @@ "s3" :> "u2", issues |-> n, busy |-> b, restarts |-> r]
NoDesk == Desk(0, 0, 0)
TicketPlans == {NoDesk, Desk(3, 1, 0), Desk(2, 1, 1)}

-----------------------------------------------------------------------------
\* One part at work; the conjuncts discard the other combinations early.
OneAtWork(parts) == Cardinality({p \in parts : ~p[2]}) <= 1
RestoreIdle  == <<"restore", rest = NoRestore>>
TicketsIdle  == <<"tickets", desk = NoDesk>>
RunsIdle     == <<"runs", runPlan = NoRuns>>
AgendaIdle   == <<"agenda", job = NoAgenda>>
CopiesIdle   == <<"copies", copyPlan = NoCopies>>
DownloadIdle == <<"downloads", ask = NoAsks>>
BackupInit ==
    /\ RestoreInit /\ TicketInit /\ OneAtWork({RestoreIdle, TicketsIdle})
    /\ RunsInit /\ AgendaInit /\ OneAtWork({RestoreIdle, TicketsIdle, RunsIdle, AgendaIdle})
    /\ CopyInit /\ DownloadInit
    /\ OneAtWork({RestoreIdle, TicketsIdle, RunsIdle, AgendaIdle, CopiesIdle, DownloadIdle})

BackupNext ==
    \/ RunsNext /\ UNCHANGED <<agendaVars, copyVars, downloadVars, restoreVars, ticketVars>>
    \/ AgendaNext /\ UNCHANGED <<runsVars, copyVars, downloadVars, restoreVars, ticketVars>>
    \/ CopyNext /\ UNCHANGED <<runsVars, agendaVars, downloadVars, restoreVars, ticketVars>>
    \/ DownloadNext /\ UNCHANGED <<runsVars, agendaVars, copyVars, restoreVars, ticketVars>>
    \/ RestoreNext /\ UNCHANGED <<runsVars, agendaVars, copyVars, downloadVars, ticketVars>>
    \/ TicketsNext /\ UNCHANGED <<runsVars, agendaVars, copyVars, downloadVars, restoreVars>>

BackupSpec ==
    /\ BackupInit
    /\ [][BackupNext]_<<runsVars, agendaVars, copyVars, downloadVars, restoreVars, ticketVars>>
    /\ RunsFairness /\ AgendaFairness /\ DownloadFairness /\ RestoreFairness
===============================================================================
