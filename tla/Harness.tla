------------------------------- MODULE Harness -------------------------------
(***************************************************************************)
(* The benchmark harness of crates/astra-harness: run, sweep, list and     *)
(* verify (src/lib.rs, src/main.rs), their report files and the registry   *)
(* of recorded runs, under crashes between any two writes and with several *)
(* processes on one registry.                                              *)
(*                                                                         *)
(* A report is named by the SHA-256 of its bytes; here the report itself   *)
(* is its hash, for two reports with one hash are not expected to be found.*)
(* std::fs::write empties a file before it fills it, so both are steps.    *)
(***************************************************************************)
EXTENDS Integers, Sequences, FiniteSets, Functions, FiniteSetsExt

CONSTANTS
    None,       \* Option::None; no file
    Torn,       \* a file emptied, half written, or with the end of a longer text
    Processes,  \* harness processes, each running one command after another
    Captures,   \* what the input directory may hold: id, frames, replayable, calls of replay
    Texts,      \* config files: their length and what they parse to, or None
    Sweeps,     \* the lists of configs that commands are given
    MaxJobs,    \* bound on the commands that write
    MaxChanges  \* bound on the changes of the input directory

ASSUME HarnessAssumption ==
    /\ MaxJobs \in Nat
    /\ MaxChanges \in Nat
    /\ \A c \in Captures : c.calls \in Seq(Range(c.calls))
    /\ \A t \in Texts : t.config # None => t.config.probes \in Seq(Range(t.config.probes))
    /\ Sweeps \subseteq Seq(Texts) \ {<<>>}

VARIABLES
    input,     \* what the input directory holds
    outputs,   \* the output directory: contents by name, the hash
    registry,  \* the registry: report.json and config.json by directory name
    job,       \* what each process is doing, or None
    answer,    \* what the last step printed, None for nothing or an error
    jobs,      \* commands started that write
    changes,   \* changes of the input directory
    alone,     \* observer: no other process has run since its last command began
    made       \* observer: by what replay each entry of the registry was made

commands == <<jobs, changes, alone, made>>
vars == <<input, outputs, registry, job, answer, commands>>

-----------------------------------------------------------------------------
\* The strategies, as far as which calls they answer to.  BookTop emits a top for
\* each snapshot and for each diff until a gap or a diff that breaks the book.
BookTop(calls) ==
    LET broken[i \in 0..Len(calls)] ==
            IF i = 0 THEN FALSE
            ELSE IF calls[i].on = "snapshot" THEN FALSE
            ELSE broken[i - 1] \/ calls[i].on \in {"gap", "diff_with_hole"}
    IN  {i \in DOMAIN calls : calls[i].on \in {"snapshot", "diff"} /\ ~broken[i]}

\* TradeTally: one signal at the end.
TradeTally(calls) ==
    [side \in {"Buy", "Sell", None} |->
        Cardinality({i \in DOMAIN calls : calls[i].on = "trade" /\ calls[i].side = side})]

Strategies == {"book-top", "trade-tally"}
Signals(strategy, calls) ==
    [tops |-> IF strategy = "book-top" THEN BookTop(calls) ELSE {},
     tally |-> IF strategy = "trade-tally" THEN TradeTally(calls) ELSE None]

\* Mutant of Forwarded: gaps go to the collectors only.
Forwarded_without_gaps == {"diff", "diff_with_hole", "snapshot"}

\* HarnessStrategy: the calls it hands on to the strategy.  Trades and tops go to
\* the collector alone.
Forwarded == {"diff", "diff_with_hole", "snapshot", "gap"}
HarnessSignals(strategy, calls) ==
    Signals(strategy, [i \in DOMAIN calls |->
        IF calls[i].on \in Forwarded THEN calls[i] ELSE [on |-> "nothing"]])

\* What simulate makes of a probe: filled by a trade at its price or better that no
\* gap comes before.
Outcome(probe, calls) ==
    LET holes == {i \in DOMAIN calls : calls[i].on = "gap"}
        fills == {i \in DOMAIN calls :
                    /\ calls[i].on = "trade"
                    /\ IF probe.side = "buy" THEN calls[i].price <= probe.price
                                             ELSE calls[i].price >= probe.price
                    /\ \A j \in holes : i < j}
    IN  IF fills # {} THEN [result |-> "filled", print |-> Min(fills)]
        ELSE [result |-> "unfilled", reason |-> IF holes # {} THEN "voided_by_gap" ELSE "no_through_print"]

Fills(report) == Cardinality({i \in DOMAIN report.probes : report.probes[i].outcome.result = "filled"})

\* run_benchmark gets as far as its report: the config is one, and both the replay and
\* the probes go through.  A probe that is not sound spoils the run.
Runs(capture, text) ==
    /\ text.config # None
    /\ text.config.version = 1
    /\ text.config.strategy \in Strategies
    /\ capture.replayable
    /\ \A i \in DOMAIN text.config.probes : text.config.probes[i].price > 0

\* The report of a run: its contents are those of the capture that was replayed, its
\* name and number of frames those in the manifest when it was read again.
Report(replayed, named, text) ==
    LET config == text.config
    IN  [capture_id |-> named.id, frames |-> named.frames, seed |-> config.seed,
         strategy |-> config.strategy,
         signals |-> HarnessSignals(config.strategy, replayed.calls),
         probes |-> [i \in DOMAIN config.probes |->
                        [order |-> config.probes[i], outcome |-> Outcome(config.probes[i], replayed.calls)]]]

Reports ==
    {Report(run[1], run[2], run[3]) :
        run \in {r \in Captures \X Captures \X Texts : Runs(r[1], r[3])}}

\* A whole file is neither missing nor torn.
ASSUME FilesAssumption ==
    /\ None # Torn
    /\ \A report \in Reports : report \notin {None, Torn}

-----------------------------------------------------------------------------
\* Files.  What filling a config leaves when another process has filled the file since
\* it was emptied: the end of a longer text stays.  Everyone fills a report's file
\* with the same bytes, for it is named by their hash.
Filled(old, new) == IF old \notin {None, Torn} /\ old.length > new.length THEN Torn ELSE new

Entry(h) == IF h \in DOMAIN registry THEN registry[h] ELSE [report |-> None, config |-> None]
Put(map, name, content) == [n \in DOMAIN map \cup {name} |-> IF n = name THEN content ELSE map[n]]

Init ==
    /\ input \in Captures
    /\ outputs = <<>>
    /\ registry = <<>>
    /\ job = [p \in Processes |-> None]
    /\ answer = None
    /\ jobs = 0
    /\ changes = 0
    /\ alone = [p \in Processes |-> TRUE]
    /\ made = {}

\* A process goes on, with nothing to print yet; its command ends, and prints a.
Go(p, j) == job' = [job EXCEPT ![p] = j] /\ answer' = None
Answer(p, a) == job' = [job EXCEPT ![p] = None] /\ answer' = a

\* The directory changes: the capture in it goes on or ends, or the operator puts
\* another one there.
ChangeInput ==
    /\ changes < MaxChanges
    /\ changes' = changes + 1
    /\ input' \in Captures \ {input}
    /\ answer' = None
    /\ UNCHANGED <<outputs, registry, job, jobs, alone, made>>

\* run_benchmark is begun, for a list of configs or for the entry to be verified.
Begin(p, texts, record, verifying) ==
    /\ alone' = [q \in Processes |-> q = p /\ \A r \in Processes \ {p} : job[r] = None]
    /\ Go(p, [step |-> "replay", texts |-> texts, record |-> record, verifying |-> verifying,
              at |-> 1, replayed |-> None, run |-> None, rows |-> <<>>])
    /\ UNCHANGED <<input, outputs, registry, changes, made>>

\* A command is started: sweep over a list of configs, or run, which is a sweep over
\* one that prints no table.
Start(p, texts, record) ==
    /\ job[p] = None
    /\ jobs < MaxJobs
    /\ jobs' = jobs + 1
    /\ Begin(p, texts, record, None)

\* verify_run of a hash reads the config first: an error without it.
Verify(p, h) ==
    /\ job[p] = None
    /\ Entry(h).config \notin {None, Torn}
    /\ Begin(p, <<Entry(h).config>>, FALSE, h)
    /\ UNCHANGED jobs

VerifyFails(p, h) ==
    /\ job[p] = None
    /\ Entry(h).config \in {None, Torn}
    /\ Answer(p, None)
    /\ UNCHANGED <<input, outputs, registry, commands>>

Text(j) == j.texts[j.at]

\* run_benchmark parses the config, replays the directory and simulates the probes; an
\* error ends the command, with no table and no verdict.
Replay(p) ==
    /\ job[p] # None /\ job[p].step = "replay"
    /\ IF Runs(input, Text(job[p]))
       THEN Go(p, [job[p] EXCEPT !.step = "read_id", !.replayed = input])
       ELSE Answer(p, None)
    /\ UNCHANGED <<input, outputs, registry, commands>>

\* Then it reads the manifest of the directory again, for the report.  verify compares.
ReadCaptureId(p) ==
    /\ job[p] # None /\ job[p].step = "read_id"
    /\ LET run == Report(job[p].replayed, input, Text(job[p]))
       IN  IF job[p].verifying = None
           THEN Go(p, [job[p] EXCEPT !.step = "empty_output", !.run = run])
           ELSE Answer(p, [printed |-> "verdict", by |-> p, hash |-> job[p].verifying,
                           replayed |-> job[p].replayed, named |-> input,
                           reproduced |-> run = job[p].verifying])
    /\ UNCHANGED <<input, outputs, registry, commands>>

\* Mutant of OutputName: one file a capture and seed.
OutputName_by_seed(run) == [run EXCEPT !.probes = <<>>, !.strategy = None]

OutputName(run) == run

\* write_report_file, in its two steps.
EmptyOutput(p) ==
    /\ job[p] # None /\ job[p].step = "empty_output"
    /\ outputs' = Put(outputs, OutputName(job[p].run), Torn)
    /\ Go(p, [job[p] EXCEPT !.step = "fill_output"])
    /\ UNCHANGED <<input, registry, commands>>

\* The row of the table this config gives.
Row(j) == [hash |-> j.run, strategy |-> Text(j).config.strategy, seed |-> Text(j).config.seed,
           probes |-> Len(Text(j).config.probes), fills |-> Fills(j.run)]

\* The config is done: the next one is run, or the table is printed.
Proceed(p, j) ==
    LET done == [j EXCEPT !.rows = Append(@, Row(j))]
    IN  IF j.at < Len(j.texts)
        THEN Go(p, [done EXCEPT !.step = "replay", !.at = @ + 1, !.replayed = None, !.run = None])
        ELSE Answer(p, [printed |-> "table", by |-> p, rows |-> done.rows, recorded |-> j.record])

FillOutput(p) ==
    /\ job[p] # None /\ job[p].step = "fill_output"
    /\ outputs' = Put(outputs, OutputName(job[p].run), job[p].run)
    /\ IF job[p].record
       THEN Go(p, [job[p] EXCEPT !.step = "empty_report"])
       ELSE Proceed(p, job[p])
    /\ UNCHANGED <<input, registry, commands>>

-----------------------------------------------------------------------------
\* record_run: the report, then the config it was made with.
EmptyReport(p) ==
    /\ job[p] # None /\ job[p].step = "empty_report"
    /\ registry' = Put(registry, job[p].run, [Entry(job[p].run) EXCEPT !.report = Torn])
    /\ made' = made \cup {[hash |-> job[p].run, replayed |-> job[p].replayed]}
    /\ Go(p, [job[p] EXCEPT !.step = "fill_report"])
    /\ UNCHANGED <<input, outputs, jobs, changes, alone>>

FillReport(p) ==
    /\ job[p] # None /\ job[p].step = "fill_report"
    /\ registry' = [registry EXCEPT ![job[p].run].report = job[p].run]
    /\ Go(p, [job[p] EXCEPT !.step = "empty_config"])
    /\ UNCHANGED <<input, outputs, commands>>

EmptyConfig(p) ==
    /\ job[p] # None /\ job[p].step = "empty_config"
    /\ registry' = [registry EXCEPT ![job[p].run].config = Torn]
    /\ Go(p, [job[p] EXCEPT !.step = "fill_config"])
    /\ UNCHANGED <<input, outputs, commands>>

\* Mutant of RecordedText: the sweep's first config.
RecordedText_first(j) == j.texts[1]

RecordedText(j) == Text(j)

FillConfig(p) ==
    /\ job[p] # None /\ job[p].step = "fill_config"
    /\ registry' = [registry EXCEPT ![job[p].run].config = Filled(@, RecordedText(job[p]))]
    /\ Proceed(p, job[p])
    /\ UNCHANGED <<input, outputs, commands>>

\* The process dies, or a write fails: the file it was writing stays as it is.
Crash(p) ==
    /\ job[p] # None
    /\ Answer(p, None)
    /\ UNCHANGED <<input, outputs, registry, commands>>

-----------------------------------------------------------------------------
\* list_runs: one line an entry that has a report; one report that is not JSON and
\* there is no listing.
Listed == {h \in DOMAIN registry : registry[h].report # None}
Summary(h) == [hash |-> h, capture_id |-> h.capture_id, seed |-> h.seed,
               probes |-> Len(h.probes), fills |-> Fills(h)]
List(p) ==
    /\ job[p] = None
    /\ Answer(p, IF \E h \in Listed : registry[h].report = Torn THEN None
                 ELSE [printed |-> "listing", by |-> p,
                       lines |-> {Summary(registry[h].report) : h \in Listed}])
    /\ UNCHANGED <<input, outputs, registry, commands>>

Step(p) ==
    \/ Replay(p) \/ ReadCaptureId(p)
    \/ EmptyOutput(p) \/ FillOutput(p)
    \/ EmptyReport(p) \/ FillReport(p) \/ EmptyConfig(p) \/ FillConfig(p)
    \/ Crash(p)
    \/ List(p)
    \/ \E h \in DOMAIN registry : Verify(p, h) \/ VerifyFails(p, h)

Next ==
    \/ \E p \in Processes : Step(p)
    \/ \E p \in Processes, texts \in Sweeps, record \in BOOLEAN :
           Start(p, texts, record)
    \/ ChangeInput

Spec == Init /\ [][Next]_vars

-----------------------------------------------------------------------------
\* The manifest that was read is the one the report speaks of.
Names(report, capture) == report.capture_id = capture.id /\ report.frames = capture.frames

\* A recorded run can be reproduced from what is stored.  If verify replays what the
\* run had replayed, it says reproduced when its manifest is the one the report names
\* and MISMATCH when it is another, whatever crashed, whoever recorded the same
\* report at the same time, from whatever it replayed, and whichever text of the
\* config was stored last.
RecordedIsReproduced ==
    \A run \in made :
        /\ answer # None /\ answer.printed = "verdict"
        /\ answer.hash = run.hash /\ answer.replayed = run.replayed
        => (answer.reproduced <=> Names(run.hash, answer.named))

\* A config is stored only under a report it makes, and only after the report: the
\* entries without a report have no config either.
ConfigsBelongToReports ==
    \A h \in DOMAIN registry :
        registry[h].config \notin {None, Torn} =>
            /\ registry[h].report # None
            /\ \E c, d \in Captures : Runs(c, registry[h].config) /\ Report(c, d, registry[h].config) = h

\* The registry can be trusted: its configs make its reports, and verify says so.
RegistryReproduces == ConfigsBelongToReports /\ RecordedIsReproduced

\* A sweep's table is printed when every row of it is on the disk: the file named
\* by its hash, with the report that has the row's numbers, and the entry in the
\* registry when it was asked for, though earlier commands died in the middle of
\* writing them.  (Another process may be rewriting them at that very moment.)
TableIsOnDisk ==
    answer # None /\ answer.printed = "table" /\ alone[answer.by] =>
        \A i \in DOMAIN answer.rows :
            LET row == answer.rows[i]
            IN  /\ row.hash \in DOMAIN outputs /\ outputs[row.hash] = row.hash
                /\ answer.recorded =>
                       \E line \in {Summary(h) : h \in {g \in Listed : registry[g].report # Torn}} :
                           line.hash = row.hash /\ line.fills = row.fills /\ line.probes = row.probes

\* The harness hands BookTop all it listens to: the signals in a recorded report are
\* those that a replay with BookTop itself gives, of what was replayed for it.
BookSignalsAreTheReplays ==
    \A run \in made :
        run.hash.strategy = "book-top" => run.hash.signals = Signals("book-top", run.replayed.calls)

\* docs/benchmark-harness.md:41-43: the strategy's signals join the report, and those
\* of trade-tally are the counts of the prints.
TallyCountsThePrints ==
    \A run \in made :
        run.hash.strategy = "trade-tally" => run.hash.signals.tally = TradeTally(run.replayed.calls)
=============================================================================
