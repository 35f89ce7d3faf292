----------------------------- MODULE Artifacts ------------------------------
(***************************************************************************)
(* export_all.py beside a running sweep: it scans runs/, lets analyze.py   *)
(* build the traces that are missing, writes one page per run with the     *)
(* navigation between them, and at last the index.  server.py serves what  *)
(* is there.  Composes Sweep (who writes the runs) with the export.        *)
(***************************************************************************)
EXTENDS Sweep, Order, SequencesExt, FiniteSetsExt

CONSTANT MaxExports   \* bound

ASSUME ExportsAssumption == MaxExports \in Nat

VARIABLES
    export,  \* the script: where it is and what its first pass has found
    pages,   \* replays/<name>.<cfg>.html, by [cfg, name]
    index,   \* the pages replays/index.html links
    view     \* the index a reader has open

exportVars == <<export, pages, index, view>>
vars == <<sweepVars, exportVars>>

Solo == [thr |-> -2, sm |-> -2]            \* the configuration "solo"
NoLimit == [thr |-> 0, sm |-> 0]           \* "throttle_none"

\* The processes that have run in a directory.
Runs(d) == {n \in DOMAIN exec : exec[n].dir = d}

\* The configuration a directory is exported under: a flat one is a legacy
\* colocated run, or a solo run when it has no colocated/ in it.
Shown(d, mode) == IF d.cfg # Flat THEN d.cfg
                  ELSE IF mode = "seq" THEN Solo ELSE NoLimit
ModeOf(d) == exec[CHOOSE n \in Runs(d) : TRUE].mode
CfgShown(d) == Shown(d, ModeOf(d))

\* A seq run that has a page: one client, directly under runs/.
Alone(d) == d.cfg = Flat /\ Len(exec[files[d].results.run].clients) = 1

\* page_name
Page(item) == [cfg |-> item.cfg, name |-> item.dir.name]

\* Sorted directory listings: flat names, smlimit_*, throttle_<N>, ..., none.
Rank(cfg) == IF cfg = Flat THEN 0 ELSE IF cfg = NoLimit THEN 1000
             ELSE IF cfg.thr = 0 THEN cfg.sm ELSE 100 * cfg.thr + cfg.sm
NameBefore(a, b) ==
    \/ Len(a) < Len(b) /\ \A j \in 1 .. Len(a) : a[j] = b[j]
    \/ \E i \in DOMAIN a \cap DOMAIN b : a[i] < b[i] /\ \A j \in 1 .. i - 1 : a[j] = b[j]

\* The next directory of the entry that the first pass is at.
NextDir == CHOOSE d \in export.todo : \A e \in export.todo \ {d} : NameBefore(d.name, e.name)

\* Its files are those of one process, and complete.
OfOne(d, f) ==
    \A file \in {"kernels", "calib", "results"} \cup IF ModeOf(d) = "seq" THEN {} ELSE {"log"} :
       f[file] = Whole(f.results.run)

\* Every process that ran in it has ended, the last one with its files complete;
\* and of the seq runs, those with one client.
Finished(d) ==
    /\ OfOne(d, files[d]) /\ files[d].results.run = Max(Runs(d))
    /\ ModeOf(d) = "seq" => Alone(d)

(***************************************************************************)
(* First pass                                                              *)
(***************************************************************************)
\* No script is at work, and none has ended yet.
NoScript == [pc |-> "idle", n |-> 0, entries |-> {}, todo |-> {}, found |-> <<>>,
             built |-> <<>>, reads |-> Empty, skipped |-> {}, refused |-> {},
             finished |-> {}, since |-> 0, complete |-> FALSE]

\* The entries of runs/ are listed once, at the start.
Begin ==
    /\ export.pc = "idle" /\ export.n < MaxExports
    /\ export' = [NoScript EXCEPT !.pc = "scan", !.n = export.n + 1,
                                  !.entries = {d.cfg : d \in DOMAIN files},
                                  !.finished = {d \in DOMAIN files : Finished(d)},
                                  !.since = Now]
    /\ UNCHANGED <<sweepVars, pages, index, view>>

\* The next entry is listed when the pass gets to it.
ListEntry ==
    /\ export.pc = "scan" /\ export.todo = {} /\ export.entries # {}
    /\ LET e == CHOOSE x \in export.entries : \A y \in export.entries : Rank(x) <= Rank(y)
       IN  export' = [export EXCEPT !.entries = @ \ {e},
                                    !.todo = {d \in DOMAIN files : d.cfg = e}]
    /\ UNCHANGED <<sweepVars, pages, index, view>>

\* scan_run reports what it skips, scan_solo does not.
Skip(refused) ==
    export' = [export EXCEPT
      !.pc = "scan", !.todo = @ \ {NextDir}, !.reads = Empty, !.refused = @ \cup refused,
      !.skipped = IF ModeOf(NextDir) = "seq" THEN @ ELSE @ \cup {NextDir}]

\* An exception ends the script, and what it had in memory is gone.
Die == export' = [NoScript EXCEPT !.n = export.n]

\* ensure_trace's answer is yes: results.json is read for the clients' names.
Accept(d) ==
    IF files[d].results.whole
    THEN export' = [export EXCEPT
           !.pc = "scan", !.todo = @ \ {NextDir},
           !.found = Append(@, [dir |-> d, cfg |-> CfgShown(d),
                                clients |-> exec[files[d].results.run].clients])]
    ELSE Die

\* Mutant: only runs that have a trace already.
EnsureTraceThere(d) == IF files[d].trace # Absent THEN Accept(d) ELSE Skip({})

\* A trace is taken as it is, a run without observer data is skipped, any
\* other is given to analyze.py.
EnsureTrace(d) ==
    IF files[d].trace # Absent THEN Accept(d)
    ELSE IF files[d].kernels = Absent THEN Skip({})
    ELSE export' = [export EXCEPT !.pc = "analyze", !.reads = files[d]]

\* scan_run; and scan_solo, which reads results.json first.
Scan ==
    /\ export.pc = "scan" /\ export.todo # {}
    /\ LET d == NextDir
       IN  IF ModeOf(d) # "seq" THEN EnsureTrace(d)
           ELSE IF files[d].results = Absent THEN Skip({})
           ELSE IF ~files[d].results.whole THEN Die
           ELSE IF Alone(d) THEN EnsureTrace(d) ELSE Skip({})
    /\ UNCHANGED <<sweepVars, pages, index, view>>

\* Mutant: without calibration the clocks are taken to agree.
ReadableUncalibrated(d, r) == r.results.whole /\ (ModeOf(d) = "seq" \/ r.log # Absent)

\* Without results.json or calibration analyze.py fails, without an issue log
\* it writes nothing.
Readable(d, r) ==
    r.results.whole /\ r.calib # Absent /\ (ModeOf(d) = "seq" \/ r.log # Absent)

\* analyze.py on what it has read.  It may refuse complete files of one
\* process (a launch failed, the join drifted), and may join files of several.
Analyze ==
    /\ export.pc = "analyze"
    /\ LET d == NextDir
           r == export.reads
       IN  \/ /\ Readable(d, r)
              /\ files' = [files EXCEPT ![d].trace =
                             [log |-> r.log, kernels |-> r.kernels, calib |-> r.calib]]
              /\ export' = [export EXCEPT !.pc = "analyzed", !.reads = Empty]
              /\ UNCHANGED faults
           \/ /\ OfOne(d, r) /\ Fault
              /\ files' = files /\ Skip({d})
           \/ /\ ~OfOne(d, r)
              /\ UNCHANGED <<files, faults>> /\ Skip({})
    /\ UNCHANGED <<exec, solo, sweep, lost, pages, index, view>>

Analyzed ==
    /\ export.pc = "analyzed"
    /\ Accept(NextDir)
    /\ UNCHANGED <<sweepVars, pages, index, view>>

(***************************************************************************)
(* Navigation                                                              *)
(***************************************************************************)
\* sorted(cn): the canonical name, and with "|" the key of pair_map.
Canonical(clients) == SortSeq(clients, LAMBDA a, b : a < b)

\* What the page's selectors lead to: at most a pair, and a configuration.
InMap(item) == item.cfg # Solo /\ Len(Canonical(item.clients)) <= 2
Choice(item) == <<Canonical(item.clients), item.cfg>>
OfChoice(k) == At(export.found,
    {i \in DOMAIN export.found : InMap(export.found[i]) /\ Choice(export.found[i]) = k})

\* Mutant: a pair's first directory of a configuration stays.
PreferFirst(slot, item) == IF slot = <<>> THEN <<Page(item)>> ELSE slot

\* A pair's first directory of a configuration stays, but for its canonical one.
Prefer(slot, item) ==
    IF slot = <<>> \/ item.dir.name = Canonical(item.clients) THEN <<Page(item)>> ELSE slot

Chosen(items) == Head(FoldLeft(Prefer, <<>>, items))

\* pair_map: per pair and configuration, the page to go to.
PairMap ==
    LET choices == {Choice(item) : item \in {x \in ToSet(export.found) : InMap(x)}}
    IN  [k \in choices |-> Chosen(OfChoice(k))]

\* cfg_axes, and the selectors of the page, which put the axes together again.
Selectors ==
    LET cfgs == {item.cfg : item \in ToSet(export.found)} \ {Solo}
    IN  [thr |-> {c.thr : c \in cfgs}, sm |-> {c.sm : c \in cfgs} \cup {0}]

(***************************************************************************)
(* Second pass                                                             *)
(***************************************************************************)
\* Mutant: the index is written first.
EndScanIndexing ==
    /\ export.pc = "scan" /\ export.todo = {} /\ export.entries = {}
    /\ export' = [export EXCEPT !.pc = "build"]
    /\ index' = {Page(item) : item \in ToSet(export.found)}
    /\ UNCHANGED <<sweepVars, pages, view>>

EndScan ==
    /\ export.pc = "scan" /\ export.todo = {} /\ export.entries = {}
    /\ export' = [export EXCEPT !.pc = "build"]
    /\ UNCHANGED <<sweepVars, pages, index, view>>

\* build_data reads trace.json and results.json again; the page is written.
Build ==
    /\ export.pc = "build" /\ Len(export.built) < Len(export.found)
    /\ LET item == export.found[Len(export.built) + 1]
           f == files[item.dir]
           page == [dir |-> item.dir, trace |-> f.trace, results |-> f.results.run,
                    nav |-> PairMap, selectors |-> Selectors]
       IN  IF f.results.whole
           THEN /\ pages' = [p \in DOMAIN pages \cup {Page(item)} |->
                               IF p = Page(item) THEN page ELSE pages[p]]
                /\ export' = [export EXCEPT !.built = Append(@, Page(item))]
           ELSE pages' = pages /\ Die
    /\ UNCHANGED <<sweepVars, index, view>>

WriteIndex ==
    /\ export.pc = "build" /\ Len(export.built) = Len(export.found)
    /\ index' = ToSet(export.built)
    /\ export' = [export EXCEPT !.pc = "idle", !.complete = TRUE]
    /\ UNCHANGED <<sweepVars, pages, view>>

\* Somebody stops the script, or the machine.
Interrupt ==
    /\ export.pc # "idle" /\ Fault /\ Die
    /\ UNCHANGED <<files, exec, solo, sweep, lost, pages, index, view>>

\* do_GET "/": the index, or a placeholder without links.
Open ==
    /\ view' = index
    /\ UNCHANGED <<sweepVars, export, pages, index>>

(***************************************************************************)
(* Specification                                                           *)
(***************************************************************************)
Init ==
    /\ InitSweep
    /\ export = NoScript
    /\ pages = <<>> /\ index = {} /\ view = {}

Next ==
    \/ SweepNext /\ UNCHANGED exportVars
    \/ Begin \/ ListEntry \/ Scan \/ Analyze \/ Analyzed \/ EndScan \/ Build \/ WriteIndex
    \/ Interrupt \/ Open

Spec == Init /\ [][Next]_vars

(***************************************************************************)
(* Properties                                                              *)
(***************************************************************************)
\* The sweep's report is true: a pair it does not list as failed has issue
\* log and results of one process of this sweep, complete, under the sweep's
\* setting; and that process's records, unless its dump gave up, which the
\* calibration shows: it is then not that process's.
SweepReportsTruth ==
    sweep.pc = "done" => \A p \in Pairs \ sweep.failed :
       LET f == files[Dir(CfgOf(sweep.setting), p)]
           n == f.results.run
       IN  /\ f.log = Whole(n) /\ f.results = Whole(n) /\ n > sweep.since
           /\ exec[n].setting = sweep.setting /\ exec[n].clients = p
           /\ n \in lost <=> f.calib # Whole(n)
           /\ n \notin lost => f.kernels = Whole(n)

\* Although exports overlap processes that write, give up a dump and die, a
\* page of a directory used once shows that one process, with all its files
\* complete: its results.json and the last file of its dump commit it.
OneExecutionPerPage ==
    \A p \in DOMAIN pages : LET page == pages[p] IN
       Cardinality(Runs(page.dir)) = 1 =>
          /\ Runs(page.dir) = {page.results}
          /\ page.trace.kernels = Whole(page.results) /\ page.trace.calib = Whole(page.results)
          /\ ModeOf(page.dir) # "seq" => page.trace.log = Whole(page.results)

\* What was finished when an export began is in its index, unless its run was
\* begun again meanwhile or analyze.py failed on its complete files: and then
\* a colocated run is among those reported as skipped.
FinishedRunsShown ==
    export.complete => \A d \in export.finished :
       (\A n \in Runs(d) : n <= export.since) =>
          \/ Page([dir |-> d, cfg |-> CfgShown(d)]) \in index
          \/ d \in export.refused /\ (ModeOf(d) # "seq" => d \in export.skipped)

\* Directories are named for what runs in them: one mode in each, a cap and a
\* limit as given, one pair under one name, and under a pair's own name that
\* pair.  (run_pairs.py names a sweep under both limits for one of them.)
Processes == {ByHand[n] : n \in DOMAIN ByHand} \cup {Process(s, p) : s \in Settings, p \in Pairs}

WellNamed ==
    LET shown(r) == Shown(r.dir, r.mode)
    IN  \A r, q \in Processes :
           /\ r.dir = q.dir => r.mode = q.mode
           /\ shown(r) # Solo => CapOf(r.setting) = shown(r).thr /\ r.setting.sm = shown(r).sm
           /\ shown(r) # Solo /\ shown(r) = shown(q) =>
                 /\ r.dir.name = q.dir.name => Canonical(r.clients) = Canonical(q.clients)
                 /\ r.dir.name = Canonical(q.clients) => Canonical(r.clients) = Canonical(q.clients)

\* After an export, choosing a pair, a throttle and a limit leads to a page
\* that exists, shows that pair as it ran under them, and is the canonical
\* run where there is one; and the own choice of every page of at most a pair
\* can be made.
Shows(page, clients, cfg) ==
    LET run == exec[page.results]
    IN  /\ Canonical(run.clients) = clients
        /\ CapOf(run.setting) = cfg.thr /\ run.setting.sm = cfg.sm

SelectionShown ==
    export.complete => \A p \in index : LET page == pages[p] IN
       /\ \A k \in DOMAIN page.nav : LET target == page.nav[k] IN
            /\ target \in DOMAIN pages /\ Shows(pages[target], k[1], k[2])
            /\ [cfg |-> k[2], name |-> k[1]] \in index => target.name = k[1]
       /\ p.cfg # Solo =>
            /\ p.cfg.thr \in page.selectors.thr /\ p.cfg.sm \in page.selectors.sm
            /\ LET clients == Canonical(exec[page.results].clients)
               IN  Len(clients) <= 2 => <<clients, p.cfg>> \in DOMAIN page.nav

\* Every link of an index somebody has open still leads to a page, whatever
\* exports have done and failed to do since.
ServedLinksOpen == view \subseteq DOMAIN pages
=============================================================================
