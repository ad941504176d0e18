---------------------------- MODULE Harness_proofs ----------------------------
(***************************************************************************)
(* Proofs about the harness for any number of processes on one registry,   *)
(* any captures, configs and sweeps, whatever dies between two writes.     *)
(*                                                                         *)
(* The registry: a process knows what it replayed and which config made    *)
(* the run it is writing, and writes the config last (RegistryInv); and a  *)
(* report has its config in it, so that any config that makes it makes the *)
(* same of everything (OneConfig).                                         *)
(*                                                                         *)
(* The table: of a process that works alone, each row so far is on the     *)
(* disk, save the one file it may be writing over again (DiskInv).         *)
(*                                                                         *)
(* The signals: what HarnessStrategy keeps back, BookTop would not have    *)
(* listened to.                                                            *)
(***************************************************************************)
EXTENDS Harness, SequenceLemmas

\* The run is what the config makes when capture is replayed; of some capture.
MadeFrom(capture, text, run) == Runs(capture, text) /\ \E d \in Captures : Report(capture, d, text) = run
Makes(text, run) == \E c \in Captures : MadeFrom(c, text, run)

RowOf(run, text) ==
    [hash |-> run, strategy |-> text.config.strategy, seed |-> text.config.seed,
     probes |-> Len(text.config.probes), fills |-> Fills(run)]
Making == {m \in Reports \X Texts : Makes(m[2], m[1])}
Rows == {RowOf(m[1], m[2]) : m \in Making}

Writes == {"empty_output", "fill_output", "empty_report", "fill_report", "empty_config", "fill_config"}

Job ==
    [step : {"replay", "read_id"} \cup Writes, texts : Seq(Texts), record : BOOLEAN,
     verifying : Reports \cup {None}, at : Nat, replayed : Captures \cup {None},
     run : Reports \cup {None}, rows : Seq(Rows)]

\* A process knows what it has replayed, and what of it made the run it is writing.
JobInv(j) ==
    /\ j \in Job
    /\ j.at \in 1..Len(j.texts)
    /\ j.verifying # None => Makes(Text(j), j.verifying)
    /\ j.step # "replay" => j.replayed \in Captures /\ Runs(j.replayed, Text(j))
    /\ j.step \in Writes => /\ j.verifying = None /\ j.run \in Reports
                           /\ MadeFrom(j.replayed, Text(j), j.run)

TypeInv ==
    /\ input \in Captures
    /\ DOMAIN job = Processes /\ alone \in [Processes -> BOOLEAN]
    /\ \A p \in Processes : job[p] # None => JobInv(job[p])

-----------------------------------------------------------------------------
Contents == [report : Reports \cup {None, Torn}, config : Texts \cup {None, Torn}]

\* Entries are of reports, and a config is stored under what it makes, when there is a
\* report.
EntryInv(h) ==
    /\ h \in Reports
    /\ registry[h] \in Contents
    /\ registry[h].config \notin {None, Torn} => registry[h].report # None /\ Makes(registry[h].config, h)

RegistryInv ==
    /\ \A h \in DOMAIN registry : EntryInv(h)
    /\ \A p \in Processes : job[p] # None =>
          /\ job[p].step \in {"fill_report", "empty_config", "fill_config"} => job[p].run \in DOMAIN registry
          /\ job[p].step \in {"empty_config", "fill_config"} => registry[job[p].run].report # None

\* What a row promises; the file that is emptied to be written again is not there.
OnDisk(row, record, emptied) ==
    /\ row.hash \in DOMAIN outputs
    /\ outputs[row.hash] = row.hash \/ emptied = "output"
    /\ record => /\ row.hash \in DOMAIN registry
                 /\ registry[row.hash].report = row.hash \/ emptied = "report"

Emptied(j, row) ==
    CASE j.step = "fill_output" /\ row.hash = j.run -> "output"
      [] j.step = "fill_report" /\ row.hash = j.run -> "report"
      [] OTHER -> "none"

RunOnDisk(j) ==
    /\ j.step \in Writes \ {"empty_output"} => j.run \in DOMAIN outputs
    /\ j.step = "fill_output" => outputs[j.run] = Torn
    /\ j.step \in Writes \ {"empty_output", "fill_output"} => outputs[j.run] = j.run
    /\ j.step \in {"fill_report", "empty_config", "fill_config"} => j.run \in DOMAIN registry
    /\ j.step = "fill_report" => registry[j.run].report = Torn
    /\ j.step \in {"empty_config", "fill_config"} => registry[j.run].report = j.run

RowsOnDisk(j) == \A i \in DOMAIN j.rows : OnDisk(j.rows[i], j.record, Emptied(j, j.rows[i]))

DiskInv ==
    \A p \in Processes : alone[p] =>
        /\ \A q \in Processes \ {p} : job[q] = None
        /\ job[p] # None => RunOnDisk(job[p]) /\ RowsOnDisk(job[p])

\* Each entry of the registry was made of what was replayed for it.
MadeInv == \A m \in made : m.replayed \in Captures /\ \E t \in Texts : MadeFrom(m.replayed, t, m.hash)

\* What is printed: a table of rows that are on the disk, a verdict from a config that
\* makes the report it is on.
TableInv(a) ==
    /\ a.by \in Processes /\ a.rows \in Seq(Rows)
    /\ alone[a.by] => \A i \in DOMAIN a.rows : OnDisk(a.rows[i], a.recorded, "none")
VerdictInv(a) ==
    /\ a.replayed \in Captures /\ a.named \in Captures
    /\ \E t \in Texts : /\ Makes(t, a.hash)
                        /\ a.reproduced <=> Report(a.replayed, a.named, t) = a.hash
AnswerInv ==
    answer # None => /\ answer.printed = "table" => TableInv(answer)
                     /\ answer.printed = "verdict" => VerdictInv(answer)

Inv == TypeInv /\ RegistryInv /\ DiskInv /\ MadeInv /\ AnswerInv

-----------------------------------------------------------------------------
LEMMA RunsHaveConfigs ==
    ASSUME NEW c, NEW t \in Texts, Runs(c, t)
    PROVE  t.config # None /\ t.config.probes \in Seq(Range(t.config.probes))
BY HarnessAssumption DEF Runs

LEMMA ReportFacts ==
    ASSUME NEW c, NEW d, NEW t
    PROVE  /\ Report(c, d, t).capture_id = d.id
           /\ Report(c, d, t).frames = d.frames
           /\ Report(c, d, t).seed = t.config.seed
           /\ Report(c, d, t).strategy = t.config.strategy
           /\ Report(c, d, t).signals = HarnessSignals(t.config.strategy, c.calls)
           /\ Report(c, d, t).probes =
                  [i \in DOMAIN t.config.probes |->
                      [order |-> t.config.probes[i], outcome |-> Outcome(t.config.probes[i], c.calls)]]
BY DEF Report

LEMMA ReportLen ==
    ASSUME NEW c, NEW d, NEW t \in Texts, t.config # None
    PROVE  Len(Report(c, d, t).probes) = Len(t.config.probes)
<1> DEFINE probes == t.config.probes
           outcomes == [i \in DOMAIN probes |-> [order |-> probes[i], outcome |-> Outcome(probes[i], c.calls)]]
<1>1. Report(c, d, t).probes = outcomes
  BY ReportFacts
<1>2. probes \in Seq(Range(probes))
  BY HarnessAssumption
<1> HIDE DEF probes
<1>3. DOMAIN outcomes = 1..Len(probes) /\ Len(probes) \in Nat
  BY <1>2
<1>4. Len(outcomes) = Len(probes)
  BY <1>3
<1> HIDE DEF outcomes
<1> QED
  BY <1>1, <1>4 DEF probes

\* A report has its config in it: two configs that make one report make the same of
\* everything.
LEMMA OneConfig ==
    ASSUME NEW c, NEW d, NEW t, NEW b, NEW e, NEW u,
           Report(c, d, t) = Report(b, e, u),
           NEW r, NEW n
    PROVE  Report(r, n, t) = Report(r, n, u)
<1> DEFINE Probes(v, x) == [i \in DOMAIN v.config.probes |->
                               [order |-> v.config.probes[i], outcome |-> Outcome(v.config.probes[i], x.calls)]]
<1>1. t.config.seed = u.config.seed /\ t.config.strategy = u.config.strategy /\ Probes(t, c) = Probes(u, b)
  <2>1. /\ Report(c, d, t).seed = t.config.seed /\ Report(b, e, u).seed = u.config.seed
        /\ Report(c, d, t).strategy = t.config.strategy /\ Report(b, e, u).strategy = u.config.strategy
    BY DEF Report
  <2>2. Report(c, d, t).probes = Probes(t, c) /\ Report(b, e, u).probes = Probes(u, b)
    BY DEF Report
  <2> HIDE DEF Probes
  <2> QED
    BY <2>1, <2>2
<1>2. DOMAIN t.config.probes = DOMAIN u.config.probes
  <2>1. DOMAIN Probes(t, c) = DOMAIN t.config.probes /\ DOMAIN Probes(u, b) = DOMAIN u.config.probes
    OBVIOUS
  <2> QED
    BY <1>1, <2>1
<1>3. ASSUME NEW i \in DOMAIN t.config.probes
      PROVE  t.config.probes[i] = u.config.probes[i]
  <2>1. Probes(t, c)[i].order = t.config.probes[i] /\ Probes(u, b)[i].order = u.config.probes[i]
    BY <1>2, <1>3
  <2> QED
    BY <1>1, <2>1
<1>4. Probes(t, r) = Probes(u, r)
  BY <1>2, <1>3
<1> QED
  BY <1>1, <1>4 DEF Report

\* And it has the manifest in it, as far as it names a capture.
LEMMA OneName ==
    ASSUME NEW r, NEW d, NEW n, NEW t
    PROVE  Report(r, n, t) = Report(r, d, t) <=> Names(Report(r, d, t), n)
<1>1. Names(Report(r, d, t), n) <=> n.id = d.id /\ n.frames = d.frames
  BY DEF Names, Report
<1>2. Report(r, n, t) = Report(r, d, t) => Names(Report(r, d, t), n)
  <2>1. Names(Report(r, n, t), n)
    BY DEF Names, Report
  <2> QED
    BY <2>1
<1>3. n.id = d.id /\ n.frames = d.frames => Report(r, n, t) = Report(r, d, t)
  BY DEF Report
<1> QED
  BY <1>1, <1>2, <1>3

LEMMA ReportsAreFiles == \A run \in Reports : run # None /\ run # Torn
BY FilesAssumption

LEMMA ReportsAreMade ==
    ASSUME NEW c \in Captures, NEW d \in Captures, NEW t \in Texts, Runs(c, t)
    PROVE  Report(c, d, t) \in Reports /\ MadeFrom(c, t, Report(c, d, t))
<1>1. <<c, d, t>> \in {r \in Captures \X Captures \X Texts : Runs(r[1], r[3])}
  OBVIOUS
<1>2. Report(c, d, t) \in Reports
  BY <1>1 DEF Reports
<1> QED
  BY <1>2 DEF MadeFrom

LEMMA RowFacts ==
    ASSUME NEW row \in Rows
    PROVE  /\ row.hash \in Reports
           /\ row.fills = Fills(row.hash)
           /\ row.probes = Len(row.hash.probes)
<1>1. PICK run \in Reports, t \in Texts : Makes(t, run) /\ row = RowOf(run, t)
  BY DEF Rows, Making
<1>2. row.hash = run /\ row.fills = Fills(run) /\ row.probes = Len(t.config.probes)
  BY <1>1 DEF RowOf
<1>3. PICK c \in Captures, d \in Captures : Runs(c, t) /\ Report(c, d, t) = run
  BY <1>1 DEF Makes, MadeFrom
<1>4. Len(run.probes) = Len(t.config.probes)
  BY <1>3, ReportLen, RunsHaveConfigs
<1> QED
  BY <1>2, <1>4

\* The text a process is at is one of its command's.
LEMMA TextOfJob ==
    ASSUME NEW j, JobInv(j)
    PROVE  Text(j) \in Texts /\ j.texts \in Seq(Texts) /\ j.at \in 1..Len(j.texts)
<1>1. j.texts \in Seq(Texts) /\ j.at \in 1..Len(j.texts)
  BY DEF JobInv, Job
<1> QED
  BY <1>1 DEF Text

LEMMA RowOfJob ==
    ASSUME NEW j, JobInv(j), j.step \in Writes
    PROVE  Row(j) \in Rows /\ Row(j).hash = j.run
<1>1. Text(j) \in Texts
  BY TextOfJob
<1>2. j.run \in Reports /\ Makes(Text(j), j.run)
  BY DEF JobInv, Makes, Writes
<1>3. Row(j) = RowOf(j.run, Text(j)) /\ <<j.run, Text(j)>> \in Making
  BY <1>1, <1>2 DEF Row, RowOf, Making
<1> QED
  BY <1>3 DEF Rows, Row

-----------------------------------------------------------------------------
\* What a step of p leaves alone.
Turn(p) == DOMAIN job' = DOMAIN job /\ \A q \in Processes \ {p} : job'[q] = job[q]

LEMMA TypeStep ==
    ASSUME TypeInv, NEW p \in Processes, Turn(p), input' \in Captures, alone' \in [Processes -> BOOLEAN],
           job'[p] # None => JobInv(job'[p])
    PROVE  TypeInv'
<1>1. \A q \in Processes : job'[q] # None => JobInv(job'[q])
  BY DEF TypeInv, Turn
<1> QED
  BY <1>1 DEF TypeInv, Turn

\* An entry stays right if its config does and a report does not go away.
LEMMA RegistryStep ==
    ASSUME TypeInv, RegistryInv, NEW p \in Processes, Turn(p),
           DOMAIN registry \subseteq DOMAIN registry',
           \A h \in DOMAIN registry' : EntryInv(h)',
           \A h \in DOMAIN registry : registry[h].report # None => registry'[h].report # None,
           job'[p] # None =>
              /\ job'[p].step \in {"fill_report", "empty_config", "fill_config"} => job'[p].run \in DOMAIN registry'
              /\ job'[p].step \in {"empty_config", "fill_config"} => registry'[job'[p].run].report # None
    PROVE  RegistryInv'
<1>1. ASSUME NEW q \in Processes, job'[q] # None
      PROVE  /\ job'[q].step \in {"fill_report", "empty_config", "fill_config"} =>
                    job'[q].run \in DOMAIN registry'
             /\ job'[q].step \in {"empty_config", "fill_config"} => registry'[job'[q].run].report # None
  <2>1. CASE q = p
    BY <1>1, <2>1
  <2>2. CASE q # p
    <3>1. job'[q] = job[q]
      BY <2>2 DEF Turn
    <3>2. /\ job[q].step \in {"fill_report", "empty_config", "fill_config"} => job[q].run \in DOMAIN registry
          /\ job[q].step \in {"empty_config", "fill_config"} => registry[job[q].run].report # None
      BY <1>1, <3>1 DEF RegistryInv
    <3> QED
      BY <3>1, <3>2
  <2> QED
    BY <2>1, <2>2
<1> QED
  BY <1>1 DEF RegistryInv

LEMMA EntriesStand ==
    ASSUME RegistryInv, UNCHANGED registry
    PROVE  \A h \in DOMAIN registry' : EntryInv(h)'
BY DEF RegistryInv, EntryInv, Contents, Reports, Makes, MadeFrom

LEMMA MadeStands ==
    ASSUME MadeInv, UNCHANGED made
    PROVE  MadeInv'
BY DEF MadeInv, MadeFrom

\* Who works alone is the only one that writes.
LEMMA DiskStep ==
    ASSUME TypeInv, DiskInv, NEW p \in Processes, Turn(p), UNCHANGED alone,
           job[p] # None \/ (job'[p] = None /\ UNCHANGED <<outputs, registry>>),
           alone[p] /\ job'[p] # None => RunOnDisk(job[p])' /\ RowsOnDisk(job[p])'
    PROVE  DiskInv'
<1> SUFFICES ASSUME NEW r \in Processes, alone'[r]
    PROVE  /\ \A q \in Processes \ {r} : job'[q] = None
           /\ job'[r] # None => RunOnDisk(job[r])' /\ RowsOnDisk(job[r])'
  BY DEF DiskInv
<1>1. CASE r = p
  <2>1. \A q \in Processes \ {p} : job'[q] = None
    BY <1>1 DEF DiskInv, Turn
  <2> QED
    BY <1>1, <2>1
<1>2. CASE r # p
  <2>1. /\ \A q \in Processes \ {r} : job[q] = None
        /\ job[r] # None => RunOnDisk(job[r]) /\ RowsOnDisk(job[r])
    BY DEF DiskInv
  <2>2. job'[p] = None /\ UNCHANGED <<outputs, registry>> /\ job'[r] = job[r]
    BY <1>2, <2>1 DEF Turn
  <2>3. job'[r] # None => RunOnDisk(job[r])' /\ RowsOnDisk(job[r])'
    BY <2>1, <2>2 DEF RunOnDisk, RowsOnDisk, OnDisk, Emptied, Writes
  <2> QED
    BY <1>2, <2>1, <2>2, <2>3 DEF Turn
<1> QED
  BY <1>1, <1>2

\* A process which works alone finds the files as it left them.
LEMMA OwnFiles ==
    ASSUME DiskInv, NEW p \in Processes, job[p] # None, alone[p]
    PROVE  RunOnDisk(job[p]) /\ RowsOnDisk(job[p])
BY DEF DiskInv

-----------------------------------------------------------------------------
LEMMA InitInv == Init => Inv
<1> SUFFICES ASSUME Init
    PROVE  Inv
  OBVIOUS
<1>1. \A p \in Processes : job[p] = None
  BY DEF Init
<1>2. TypeInv
  BY <1>1 DEF Init, TypeInv
<1>3. RegistryInv
  BY <1>1 DEF Init, RegistryInv
<1>4. DiskInv
  BY <1>1 DEF DiskInv
<1>5. MadeInv /\ AnswerInv
  BY DEF Init, MadeInv, AnswerInv
<1> QED
  BY <1>2, <1>3, <1>4, <1>5 DEF Inv

\* A command is begun, or one that verifies.
LEMMA BeginInv ==
    ASSUME Inv, NEW p \in Processes, NEW texts \in Seq(Texts), texts # <<>>, NEW record \in BOOLEAN,
           NEW verifying \in Reports \cup {None}, verifying # None => Makes(texts[1], verifying),
           Begin(p, texts, record, verifying)
    PROVE  Inv'
<1> DEFINE new == [step |-> "replay", texts |-> texts, record |-> record, verifying |-> verifying,
                   at |-> 1, replayed |-> None, run |-> None, rows |-> <<>>]
<1>1. /\ job' = [job EXCEPT ![p] = new] /\ answer' = None
      /\ alone' = [q \in Processes |-> q = p /\ \A r \in Processes \ {p} : job[r] = None]
      /\ UNCHANGED <<input, outputs, registry, made>>
  BY DEF Begin, Go
<1>2. JobInv(new)
  <2>1. 1 \in 1..Len(texts)
    OBVIOUS
  <2>2. new \in Job
    BY DEF Job
  <2>3. new.step = "replay" /\ new.verifying = verifying /\ Text(new) = texts[1]
    BY DEF Text
  <2> QED
    BY <2>1, <2>2, <2>3 DEF JobInv, Writes
<1>3. new.step = "replay" /\ new.rows = <<>>
  OBVIOUS
<1> HIDE DEF new
<1>4. Turn(p) /\ job'[p] = new
  BY <1>1 DEF Turn, Inv, TypeInv
<1>5. alone' \in [Processes -> BOOLEAN]
  BY <1>1
<1>6. TypeInv'
  BY <1>1, <1>2, <1>4, <1>5, TypeStep DEF Inv, TypeInv
<1>7. RegistryInv'
  BY <1>1, <1>3, <1>4, EntriesStand, RegistryStep DEF Inv
<1>8. DiskInv'
  <2> SUFFICES ASSUME NEW r \in Processes, alone'[r]
      PROVE  /\ \A q \in Processes \ {r} : job'[q] = None
             /\ job'[r] # None => RunOnDisk(job[r])' /\ RowsOnDisk(job[r])'
    BY DEF DiskInv
  <2>1. r = p /\ \A q \in Processes \ {p} : job[q] = None
    BY <1>1
  <2>2. RunOnDisk(job[p])'
    BY <1>3, <1>4 DEF RunOnDisk, Writes
  <2>3. RowsOnDisk(job[p])'
    BY <1>3, <1>4 DEF RowsOnDisk
  <2> QED
    BY <2>1, <2>2, <2>3, <1>4 DEF Turn
<1>9. MadeInv' /\ AnswerInv'
  BY <1>1, MadeStands DEF Inv, AnswerInv
<1> QED
  BY <1>6, <1>7, <1>8, <1>9 DEF Inv

LEMMA StartInv ==
    ASSUME Inv, NEW p \in Processes, NEW texts \in Sweeps, NEW record \in BOOLEAN, Start(p, texts, record)
    PROVE  Inv'
<1>1. texts \in Seq(Texts) /\ texts # <<>>
  BY HarnessAssumption
<1>2. Begin(p, texts, record, None)
  BY DEF Start
<1> QED
  BY <1>1, <1>2, BeginInv

\* A config of the registry makes what it is stored under.
LEMMA VerifyInv ==
    ASSUME Inv, NEW p \in Processes, NEW h \in DOMAIN registry, Verify(p, h)
    PROVE  Inv'
<1>1. PICK text : text = registry[h].config
  OBVIOUS
<1>2. text \notin {None, Torn} /\ Begin(p, <<text>>, FALSE, h)
  BY <1>1 DEF Verify, Entry
<1>3. text \in Texts /\ h \in Reports /\ Makes(text, h)
  BY <1>1, <1>2 DEF Inv, RegistryInv, EntryInv, Contents
<1>4. <<text>> \in Seq(Texts) /\ <<text>> # <<>> /\ <<text>>[1] = text
  BY <1>3
<1> QED
  BY <1>2, <1>3, <1>4, BeginInv

\* The files and what is being done stay as they are.
LEMMA NothingDone ==
    ASSUME Inv, input' \in Captures, UNCHANGED <<outputs, registry, job, alone, made>>, AnswerInv'
    PROVE  Inv'
<1>1. TypeInv'
  BY DEF Inv, TypeInv
<1>2. RegistryInv'
  BY EntriesStand DEF Inv, RegistryInv
<1>3. DiskInv'
  BY DEF Inv, DiskInv, RunOnDisk, RowsOnDisk, OnDisk, Emptied, Writes
<1>4. MadeInv'
  BY MadeStands DEF Inv
<1> QED
  BY <1>1, <1>2, <1>3, <1>4 DEF Inv

LEMMA ChangeInputInv == Inv /\ ChangeInput => Inv'
<1> SUFFICES ASSUME Inv, ChangeInput
    PROVE  Inv'
  OBVIOUS
<1>1. input' \in Captures /\ answer' = None /\ UNCHANGED <<outputs, registry, job, alone, made>>
  BY DEF ChangeInput
<1>2. AnswerInv'
  BY <1>1 DEF AnswerInv
<1> QED
  BY <1>1, <1>2, NothingDone

LEMMA StutterInv == Inv /\ UNCHANGED vars => Inv'
<1> SUFFICES ASSUME Inv, UNCHANGED vars
    PROVE  Inv'
  OBVIOUS
<1>1. UNCHANGED <<input, outputs, registry, job, answer, alone, made>>
  BY DEF vars, commands
<1>2. AnswerInv'
  BY <1>1 DEF Inv, AnswerInv, TableInv, VerdictInv, OnDisk, Makes, MadeFrom
<1> QED
  BY <1>1, <1>2, NothingDone DEF Inv, TypeInv

-----------------------------------------------------------------------------
\* From here on j is what p is doing before the step: a constant, so that the files
\* after the step can be spoken of beside it.
LEMMA Goes ==
    ASSUME TypeInv, NEW p \in Processes, NEW new, Go(p, new)
    PROVE  Turn(p) /\ job'[p] = new /\ answer' = None
BY DEF TypeInv, Turn, Go

LEMMA Answers ==
    ASSUME TypeInv, NEW p \in Processes, NEW a, Answer(p, a)
    PROVE  Turn(p) /\ job'[p] = None /\ answer' = a
BY DEF TypeInv, Turn, Answer

\* A command that ends, with something to print or nothing.
LEMMA EndInv ==
    ASSUME Inv, NEW p \in Processes, NEW a, Answer(p, a), UNCHANGED <<input, alone, made>>,
           job[p] # None \/ UNCHANGED <<outputs, registry>>,
           DOMAIN registry \subseteq DOMAIN registry',
           \A h \in DOMAIN registry' : EntryInv(h)',
           \A h \in DOMAIN registry : registry[h].report # None => registry'[h].report # None,
           a # None /\ a.printed = "table" => TableInv(a)',
           a # None /\ a.printed = "verdict" => VerdictInv(a)
    PROVE  Inv'
<1>1. Turn(p) /\ job'[p] = None /\ answer' = a
  BY Answers DEF Inv
<1>2. TypeInv'
  BY <1>1, TypeStep DEF Inv, TypeInv
<1>3. RegistryInv'
  BY <1>1, RegistryStep DEF Inv
<1>4. DiskInv'
  <2>1. job[p] # None \/ (job'[p] = None /\ UNCHANGED <<outputs, registry>>)
    BY <1>1
  <2>2. alone[p] /\ job'[p] # None => RunOnDisk(job[p])' /\ RowsOnDisk(job[p])'
    BY <1>1
  <2> QED
    BY <1>1, <2>1, <2>2, DiskStep DEF Inv
<1>5. MadeInv'
  BY MadeStands DEF Inv
<1>6. AnswerInv'
  BY <1>1 DEF AnswerInv, TableInv, VerdictInv, OnDisk, Makes, MadeFrom
<1> QED
  BY <1>2, <1>3, <1>4, <1>5, <1>6 DEF Inv

\* A command that ends or is refused and writes nothing.
LEMMA AnswerOnlyInv ==
    ASSUME Inv, NEW p \in Processes, NEW a, Answer(p, a),
           UNCHANGED <<input, outputs, registry, commands>>,
           a # None => a.printed # "table",
           a # None /\ a.printed = "verdict" => VerdictInv(a)
    PROVE  Inv'
<1>1. UNCHANGED <<input, outputs, registry, alone, made>>
  BY DEF commands
<1>2. \A h \in DOMAIN registry' : EntryInv(h)'
  BY <1>1, EntriesStand DEF Inv
<1>3. a # None /\ a.printed = "table" => TableInv(a)'
  OBVIOUS
<1> QED
  BY <1>1, <1>2, <1>3, EndInv

\* A command that goes on.
LEMMA GoOnInv ==
    ASSUME Inv, NEW p \in Processes, job[p] # None, NEW new, JobInv(new),
           Go(p, new), UNCHANGED <<input, alone>>, UNCHANGED made \/ MadeInv',
           DOMAIN registry \subseteq DOMAIN registry',
           \A h \in DOMAIN registry' : EntryInv(h)',
           \A h \in DOMAIN registry : registry[h].report # None => registry'[h].report # None,
           new.step \in {"fill_report", "empty_config", "fill_config"} => new.run \in DOMAIN registry',
           new.step \in {"empty_config", "fill_config"} => registry'[new.run].report # None,
           alone[p] => RunOnDisk(new)' /\ RowsOnDisk(new)'
    PROVE  Inv'
<1>1. Turn(p) /\ job'[p] = new /\ answer' = None
  BY Goes DEF Inv
<1>2. TypeInv'
  BY <1>1, TypeStep DEF Inv, TypeInv
<1>3. RegistryInv'
  BY <1>1, RegistryStep DEF Inv
<1>4. alone[p] => RunOnDisk(job[p])' /\ RowsOnDisk(job[p])'
  BY <1>1
<1>5. DiskInv'
  <2>1. alone[p] /\ job'[p] # None => RunOnDisk(job[p])' /\ RowsOnDisk(job[p])'
    BY <1>4
  <2> QED
    BY <1>1, <2>1, DiskStep DEF Inv
<1>6. AnswerInv'
  BY <1>1 DEF AnswerInv
<1>7. MadeInv'
  BY MadeStands DEF Inv
<1> QED
  BY <1>2, <1>3, <1>5, <1>6, <1>7 DEF Inv

\* It is at the next file of the same run.
LEMMA NextFile ==
    ASSUME NEW j, JobInv(j), j.step \in Writes, NEW step \in Writes,
           NEW new, new = [j EXCEPT !.step = step]
    PROVE  /\ JobInv(new) /\ new.step = step
           /\ new.run = j.run /\ new.rows = j.rows /\ new.record = j.record
<1>1. /\ new \in Job /\ new.step = step /\ new.run = j.run /\ new.rows = j.rows
      /\ new.record = j.record /\ new.texts = j.texts /\ new.at = j.at
      /\ new.verifying = j.verifying /\ new.replayed = j.replayed
  BY DEF JobInv, Job
<1>2. Text(new) = Text(j) /\ j.step # "replay" /\ step # "replay"
  BY <1>1 DEF Text, Writes
<1> QED
  BY <1>1, <1>2 DEF JobInv

\* A config is done, and what its row promises is on the disk.
LEMMA ProceedInv ==
    ASSUME Inv, NEW p \in Processes, NEW j, job[p] = j, j # None, j.step \in Writes,
           Proceed(p, j), UNCHANGED <<input, alone, made>>,
           DOMAIN registry \subseteq DOMAIN registry',
           \A h \in DOMAIN registry' : EntryInv(h)',
           \A h \in DOMAIN registry : registry[h].report # None => registry'[h].report # None,
           alone[p] => /\ \A i \in DOMAIN j.rows : OnDisk(j.rows[i], j.record, "none")'
                       /\ OnDisk(Row(j), j.record, "none")'
    PROVE  Inv'
<1>1. JobInv(j) /\ j.verifying = None
  BY DEF Inv, TypeInv, JobInv
<1>2. PICK rows : rows = Append(j.rows, Row(j))
  OBVIOUS
<1>3. j.rows \in Seq(Rows) /\ Row(j) \in Rows
  BY <1>1, RowOfJob DEF JobInv, Job
<1>4. /\ rows \in Seq(Rows)
      /\ \A i \in DOMAIN rows : (i \in DOMAIN j.rows /\ rows[i] = j.rows[i]) \/ rows[i] = Row(j)
  <2> HIDE DEF Row
  <2> QED
    BY <1>2, <1>3
<1>5. PICK done : done = [j EXCEPT !.rows = rows]
  OBVIOUS
<1>6. /\ done \in Job /\ done.rows = rows /\ done.record = j.record
      /\ done.texts = j.texts /\ done.at = j.at /\ done.verifying = None
  BY <1>1, <1>4, <1>5 DEF JobInv, Job
<1>7. alone[p] => \A i \in DOMAIN rows : OnDisk(rows[i], j.record, "none")'
  BY <1>4
<1>8. done = [j EXCEPT !.rows = Append(@, Row(j))]
  BY <1>1, <1>2, <1>5 DEF JobInv, Job
<1>9. CASE j.at < Len(j.texts)
  <2>1. PICK new : new = [done EXCEPT !.step = "replay", !.at = @ + 1, !.replayed = None, !.run = None]
    OBVIOUS
  <2>2. Go(p, new)
    BY <1>8, <1>9, <2>1 DEF Proceed
  <2>3. /\ new \in Job /\ new.step = "replay" /\ new.at = j.at + 1 /\ new.verifying = None
        /\ new.texts = j.texts /\ new.rows = rows /\ new.record = j.record
    <3>1. done \in Job /\ done.at + 1 \in Nat
      BY <1>6 DEF Job
    <3>2. new = [done EXCEPT !.step = "replay", !.at = done.at + 1, !.replayed = None, !.run = None]
      BY <2>1, <3>1 DEF Job
    <3> QED
      BY <1>6, <3>1, <3>2 DEF Job
  <2>4. JobInv(new)
    <3>1. j.at + 1 \in 1..Len(j.texts)
      BY <1>1, <1>9, TextOfJob
    <3> QED
      BY <2>3, <3>1 DEF JobInv, Writes
  <2>5. RunOnDisk(new)'
    BY <2>3 DEF RunOnDisk, Writes
  <2>6. alone[p] => RowsOnDisk(new)'
    BY <1>7, <2>3 DEF RowsOnDisk, Emptied
  <2> QED
    BY <1>1, <2>2, <2>3, <2>4, <2>5, <2>6, GoOnInv
<1>10. CASE ~(j.at < Len(j.texts))
  <2>1. PICK a : a = [printed |-> "table", by |-> p, rows |-> rows, recorded |-> j.record]
    OBVIOUS
  <2>2. Answer(p, a)
    BY <1>6, <1>8, <1>10, <2>1 DEF Proceed
  <2>3. a.printed = "table" /\ a.by = p /\ a.rows = rows /\ a.recorded = j.record
    BY <2>1
  <2>4. TableInv(a)'
    BY <1>4, <1>7, <2>3 DEF TableInv, Rows, Making, Reports, Makes, MadeFrom
  <2> QED
    BY <2>2, <2>3, <2>4, EndInv
<1> QED
  BY <1>9, <1>10

-----------------------------------------------------------------------------
\* run_benchmark, up to its report, and what verify says of it.
LEMMA ReplayInv ==
    ASSUME Inv, NEW p \in Processes, NEW j, job[p] = j, Replay(p)
    PROVE  Inv'
<1>1. /\ j # None /\ j.step = "replay" /\ UNCHANGED <<input, outputs, registry, commands>>
      /\ JobInv(j) /\ input \in Captures
  BY DEF Replay, Inv, TypeInv
<1>2. CASE ~Runs(input, Text(j))
  <2>1. Answer(p, None)
    BY <1>2 DEF Replay
  <2> QED
    BY <1>1, <2>1, AnswerOnlyInv
<1>3. CASE Runs(input, Text(j))
  <2>1. PICK new, c : new = [j EXCEPT !.step = "read_id", !.replayed = c] /\ c = input
    OBVIOUS
  <2>2. Go(p, new)
    BY <1>3, <2>1 DEF Replay
  <2>3. /\ new \in Job /\ new.step = "read_id" /\ new.replayed = c /\ new.rows = j.rows
        /\ new.texts = j.texts /\ new.at = j.at /\ new.verifying = j.verifying /\ new.record = j.record
    BY <1>1, <2>1 DEF JobInv, Job
  <2>4. Text(new) = Text(j) /\ new.step \notin Writes
    BY <2>3 DEF Text, Writes
  <2>5. JobInv(new)
    BY <1>1, <1>3, <2>1, <2>3, <2>4 DEF JobInv
  <2>6. RunOnDisk(new)'
    BY <2>3 DEF RunOnDisk, Writes
  <2>7. alone[p] => RowsOnDisk(new)'
    <3>1. alone[p] => RowsOnDisk(j)
      BY <1>1, OwnFiles DEF Inv
    <3> QED
      BY <1>1, <2>3, <3>1 DEF RowsOnDisk, Emptied, OnDisk
  <2>8. \A h \in DOMAIN registry' : EntryInv(h)'
    BY <1>1, EntriesStand DEF Inv
  <2> QED
    BY <1>1, <2>2, <2>3, <2>5, <2>6, <2>7, <2>8, GoOnInv DEF commands
<1> QED
  BY <1>2, <1>3

LEMMA ReadCaptureIdInv ==
    ASSUME Inv, NEW p \in Processes, NEW j, job[p] = j, ReadCaptureId(p)
    PROVE  Inv'
<1>1. /\ j # None /\ j.step = "read_id" /\ UNCHANGED <<input, outputs, registry, commands>>
      /\ JobInv(j) /\ input \in Captures
  BY DEF ReadCaptureId, Inv, TypeInv
<1>2. PICK d, run : d = input /\ run = Report(j.replayed, d, Text(j))
  OBVIOUS
<1>3. j.replayed \in Captures /\ Runs(j.replayed, Text(j)) /\ Text(j) \in Texts
  BY <1>1, TextOfJob DEF JobInv
<1>4. run \in Reports /\ MadeFrom(j.replayed, Text(j), run)
  BY <1>1, <1>2, <1>3, ReportsAreMade
<1>5. CASE j.verifying = None
  <2>1. PICK new : new = [j EXCEPT !.step = "empty_output", !.run = run]
    OBVIOUS
  <2>2. Go(p, new)
    BY <1>2, <1>5, <2>1 DEF ReadCaptureId
  <2>3. /\ new \in Job /\ new.step = "empty_output" /\ new.run = run /\ new.rows = j.rows
        /\ new.texts = j.texts /\ new.at = j.at /\ new.verifying = None /\ new.record = j.record
        /\ new.replayed = j.replayed
    BY <1>1, <1>4, <1>5, <2>1 DEF JobInv, Job, Writes
  <2>4. Text(new) = Text(j)
    BY <2>3 DEF Text
  <2>5. JobInv(new)
    BY <1>1, <1>3, <1>4, <2>3, <2>4 DEF JobInv
  <2>6. RunOnDisk(new)'
    BY <2>3 DEF RunOnDisk, Writes
  <2>7. alone[p] => RowsOnDisk(new)'
    <3>1. alone[p] => RowsOnDisk(j)
      BY <1>1, OwnFiles DEF Inv
    <3> QED
      BY <1>1, <2>3, <3>1 DEF RowsOnDisk, Emptied, OnDisk
  <2>8. \A h \in DOMAIN registry' : EntryInv(h)'
    BY <1>1, EntriesStand DEF Inv
  <2> QED
    BY <1>1, <2>2, <2>3, <2>5, <2>6, <2>7, <2>8, GoOnInv DEF commands
<1>6. CASE j.verifying # None
  <2>1. PICK a : a = [printed |-> "verdict", by |-> p, hash |-> j.verifying, replayed |-> j.replayed,
                      named |-> d, reproduced |-> run = j.verifying]
    OBVIOUS
  <2>2. Answer(p, a)
    BY <1>2, <1>6, <2>1 DEF ReadCaptureId
  <2>3. Makes(Text(j), j.verifying)
    BY <1>1, <1>6 DEF JobInv
  <2>4. a.printed = "verdict"
    BY <2>1
  <2>5. VerdictInv(a)
    <3>1. a.replayed = j.replayed /\ a.named = d /\ a.hash = j.verifying
      BY <2>1
    <3>2. a.reproduced <=> run = j.verifying
      BY <2>1, Zenon
    <3>3. a.reproduced <=> Report(a.replayed, a.named, Text(j)) = a.hash
      BY <1>2, <3>1, <3>2
    <3> QED
      BY <1>1, <1>2, <1>3, <2>3, <3>1, <3>3 DEF VerdictInv
  <2> QED
    BY <1>1, <2>2, <2>4, <2>5, AnswerOnlyInv
<1> QED
  BY <1>5, <1>6

\* write_report_file, in its two steps.
LEMMA EmptyOutputInv ==
    ASSUME Inv, NEW p \in Processes, NEW j, job[p] = j, EmptyOutput(p)
    PROVE  Inv'
<1>1. PICK new : new = [j EXCEPT !.step = "fill_output"]
  OBVIOUS
<1>2. /\ j # None /\ j.step = "empty_output" /\ UNCHANGED <<input, registry, commands>>
      /\ outputs' = Put(outputs, j.run, Torn) /\ Go(p, new)
      /\ JobInv(j)
  BY <1>1 DEF EmptyOutput, OutputName, Inv, TypeInv
<1>3. /\ JobInv(new) /\ new.step = "fill_output"
      /\ new.run = j.run /\ new.rows = j.rows /\ new.record = j.record
  BY <1>1, <1>2, NextFile DEF Writes
<1>4. /\ j.run \in DOMAIN outputs' /\ outputs'[j.run] = Torn
      /\ \A h \in DOMAIN outputs : h # j.run => h \in DOMAIN outputs' /\ outputs'[h] = outputs[h]
  BY <1>2 DEF Put
<1>5. RunOnDisk(new)'
  BY <1>3, <1>4 DEF RunOnDisk, Writes
<1>6. alone[p] => RowsOnDisk(new)'
  <2>1. alone[p] => RowsOnDisk(j)
    BY <1>2, OwnFiles DEF Inv
  <2> QED
    BY <1>2, <1>3, <1>4, <2>1 DEF RowsOnDisk, Emptied, OnDisk
<1>7. \A h \in DOMAIN registry' : EntryInv(h)'
  BY <1>2, EntriesStand DEF Inv
<1> QED
  BY <1>2, <1>3, <1>5, <1>6, <1>7, GoOnInv DEF commands

LEMMA FillOutputInv ==
    ASSUME Inv, NEW p \in Processes, NEW j, job[p] = j, FillOutput(p)
    PROVE  Inv'
<1>1. PICK new : new = [j EXCEPT !.step = "empty_report"]
  OBVIOUS
<1>2. /\ j # None /\ j.step = "fill_output" /\ UNCHANGED <<input, registry, commands>> /\ JobInv(j)
      /\ outputs' = Put(outputs, j.run, j.run)
  BY DEF FillOutput, OutputName, Inv, TypeInv
<1>3. IF j.record THEN Go(p, new) ELSE Proceed(p, j)
  BY <1>1 DEF FillOutput
<1>4. alone[p] => /\ j.run \in DOMAIN outputs' /\ outputs'[j.run] = j.run
                  /\ \A h \in DOMAIN outputs : h # j.run => h \in DOMAIN outputs' /\ outputs'[h] = outputs[h]
  <2>1. alone[p] => j.run \in DOMAIN outputs /\ outputs[j.run] = Torn
    BY <1>2, OwnFiles DEF Inv, RunOnDisk, Writes
  <2> QED
    BY <1>2, <2>1 DEF Put
<1>5. alone[p] => \A i \in DOMAIN j.rows : OnDisk(j.rows[i], j.record, "none")'
  <2>1. alone[p] => RowsOnDisk(j)
    BY <1>2, OwnFiles DEF Inv
  <2> QED
    BY <1>2, <1>4, <2>1 DEF RowsOnDisk, Emptied, OnDisk
<1>6. \A h \in DOMAIN registry' : EntryInv(h)'
  BY <1>2, EntriesStand DEF Inv
<1>7. CASE j.record
  <2>1. /\ JobInv(new) /\ new.step = "empty_report"
        /\ new.run = j.run /\ new.rows = j.rows /\ new.record = j.record
    BY <1>1, <1>2, NextFile DEF Writes
  <2>2. alone[p] => RunOnDisk(new)'
    BY <1>4, <2>1 DEF RunOnDisk, Writes
  <2>3. alone[p] => RowsOnDisk(new)'
    BY <1>5, <2>1 DEF RowsOnDisk, Emptied
  <2> QED
    BY <1>2, <1>3, <1>6, <1>7, <2>1, <2>2, <2>3, GoOnInv DEF commands
<1>8. CASE ~j.record
  <2>1. Row(j).hash = j.run
    BY <1>2, RowOfJob DEF Writes
  <2>2. PICK row : row = Row(j)
    OBVIOUS
  <2>3. alone[p] => OnDisk(row, j.record, "none")'
    BY <1>4, <1>8, <2>1, <2>2 DEF OnDisk
  <2>4. Proceed(p, j) /\ j.step \in Writes
    BY <1>2, <1>3, <1>8 DEF Writes
  <2> QED
    BY <1>2, <1>5, <1>6, <2>2, <2>3, <2>4, ProceedInv DEF commands
<1> QED
  BY <1>7, <1>8

-----------------------------------------------------------------------------
\* record_run: the report is written, and what config was there stays.
LEMMA ReportWritten ==
    ASSUME RegistryInv, NEW run \in Reports, NEW report \in Reports \cup {Torn}, NEW config,
           config = Entry(run).config,
           DOMAIN registry' = DOMAIN registry \cup {run},
           \A h \in DOMAIN registry : h # run => registry'[h] = registry[h],
           registry'[run] = [report |-> report, config |-> config]
    PROVE  /\ \A h \in DOMAIN registry' : EntryInv(h)'
           /\ \A h \in DOMAIN registry : registry[h].report # None => registry'[h].report # None
<1>1. report # None /\ registry'[run].report = report /\ registry'[run].config = config
  BY ReportsAreFiles, FilesAssumption
<1>2. EntryInv(run)'
  <2>1. config \in Texts \cup {None, Torn} /\ (config \notin {None, Torn} => Makes(config, run))
    BY DEF RegistryInv, EntryInv, Contents, Entry
  <2> QED
    BY <1>1, <2>1 DEF EntryInv, Contents, Reports, Makes, MadeFrom
<1>3. \A h \in DOMAIN registry : h # run => EntryInv(h)'
  BY DEF RegistryInv, EntryInv, Contents, Reports, Makes, MadeFrom
<1> QED
  BY <1>1, <1>2, <1>3

LEMMA EmptyReportInv ==
    ASSUME Inv, NEW p \in Processes, NEW j, job[p] = j, EmptyReport(p)
    PROVE  Inv'
<1>1. PICK new : new = [j EXCEPT !.step = "fill_report"]
  OBVIOUS
<1>2. /\ j # None /\ j.step = "empty_report" /\ UNCHANGED <<input, outputs, alone>>
      /\ registry' = Put(registry, j.run, [Entry(j.run) EXCEPT !.report = Torn]) /\ Go(p, new)
      /\ made' = made \cup {[hash |-> j.run, replayed |-> j.replayed]}
      /\ JobInv(j)
  BY <1>1 DEF EmptyReport, Inv, TypeInv
<1>3. /\ JobInv(new) /\ new.step = "fill_report"
      /\ new.run = j.run /\ new.rows = j.rows /\ new.record = j.record
  BY <1>1, <1>2, NextFile DEF Writes
<1>4. j.run \in Reports
  BY <1>2 DEF JobInv, Writes
<1>5. PICK config : config = Entry(j.run).config
  OBVIOUS
<1>6. /\ DOMAIN registry' = DOMAIN registry \cup {j.run}
      /\ \A h \in DOMAIN registry : h # j.run => registry'[h] = registry[h]
      /\ registry'[j.run] = [report |-> Torn, config |-> config]
  <2>1. Entry(j.run) = [report |-> Entry(j.run).report, config |-> config]
    <3>1. j.run \in DOMAIN registry => registry[j.run] \in Contents
      BY DEF Inv, RegistryInv, EntryInv, Contents
    <3> QED
      BY <1>5, <3>1 DEF Entry, Contents
  <2>2. [Entry(j.run) EXCEPT !.report = Torn] = [report |-> Torn, config |-> config]
    BY <2>1
  <2> QED
    BY <1>2, <2>2 DEF Put
<1>7. /\ \A h \in DOMAIN registry' : EntryInv(h)'
      /\ \A h \in DOMAIN registry : registry[h].report # None => registry'[h].report # None
  BY <1>4, <1>5, <1>6, ReportWritten DEF Inv
<1>8. alone[p] => RunOnDisk(j) /\ RowsOnDisk(j)
  BY <1>2, OwnFiles DEF Inv
<1>9. alone[p] => RunOnDisk(new)'
  BY <1>2, <1>3, <1>6, <1>8 DEF RunOnDisk, Writes
<1>10. alone[p] => RowsOnDisk(new)'
  BY <1>2, <1>3, <1>6, <1>8 DEF RowsOnDisk, Emptied, OnDisk
<1>11. MadeInv'
  <2>1. j.replayed \in Captures /\ Text(j) \in Texts /\ MadeFrom(j.replayed, Text(j), j.run)
    BY <1>2, TextOfJob DEF JobInv, Writes
  <2>2. PICK m : m = [hash |-> j.run, replayed |-> j.replayed]
    OBVIOUS
  <2>3. m.hash = j.run /\ m.replayed = j.replayed /\ made' = made \cup {m}
    BY <1>2, <2>2
  <2> QED
    BY <2>1, <2>3 DEF Inv, MadeInv, MadeFrom
<1> QED
  BY <1>2, <1>3, <1>6, <1>7, <1>9, <1>10, <1>11, GoOnInv

LEMMA FillReportInv ==
    ASSUME Inv, NEW p \in Processes, NEW j, job[p] = j, FillReport(p)
    PROVE  Inv'
<1>1. PICK new : new = [j EXCEPT !.step = "empty_config"]
  OBVIOUS
<1>2. /\ j # None /\ j.step = "fill_report" /\ UNCHANGED <<input, outputs, commands>>
      /\ registry' = [registry EXCEPT ![j.run].report = j.run] /\ Go(p, new)
      /\ JobInv(j)
  BY <1>1 DEF FillReport, Inv, TypeInv
<1>3. /\ JobInv(new) /\ new.step = "empty_config"
      /\ new.run = j.run /\ new.rows = j.rows /\ new.record = j.record
  BY <1>1, <1>2, NextFile DEF Writes
<1>4. j.run \in Reports /\ j.run \in DOMAIN registry /\ registry[j.run] \in Contents
  BY <1>2 DEF JobInv, Writes, Inv, RegistryInv, EntryInv, Contents
<1>5. PICK config : config = Entry(j.run).config
  OBVIOUS
<1>6. j.run # None
  BY <1>4, ReportsAreFiles
<1>7. /\ DOMAIN registry' = DOMAIN registry \cup {j.run}
      /\ \A h \in DOMAIN registry : h # j.run => registry'[h] = registry[h]
      /\ registry'[j.run] = [report |-> j.run, config |-> config]
  <2>1. registry[j.run] = [report |-> registry[j.run].report, config |-> config]
    BY <1>4, <1>5 DEF Entry, Contents
  <2>2. [registry[j.run] EXCEPT !.report = j.run] = [report |-> j.run, config |-> config]
    BY <2>1
  <2> QED
    BY <1>2, <1>4, <1>5, <2>2
<1>8. /\ \A h \in DOMAIN registry' : EntryInv(h)'
      /\ \A h \in DOMAIN registry : registry[h].report # None => registry'[h].report # None
  BY <1>4, <1>5, <1>6, <1>7, ReportWritten DEF Inv
<1>9. alone[p] => RunOnDisk(j) /\ RowsOnDisk(j)
  BY <1>2, OwnFiles DEF Inv
<1>10. registry'[j.run].report = j.run
  BY <1>7
<1>11. alone[p] => RunOnDisk(new)'
  BY <1>2, <1>3, <1>4, <1>7, <1>9, <1>10 DEF RunOnDisk, Writes
<1>12. alone[p] => RowsOnDisk(new)'
  BY <1>2, <1>3, <1>7, <1>9, <1>10 DEF RowsOnDisk, Emptied, OnDisk
<1> QED
  BY <1>2, <1>3, <1>4, <1>6, <1>7, <1>8, <1>10, <1>11, <1>12, GoOnInv DEF commands

\* The config is written, and the report that is there stays.
LEMMA ConfigWritten ==
    ASSUME RegistryInv, NEW run \in DOMAIN registry, NEW config \in Texts \cup {Torn},
           registry[run].report # None, config # Torn => Makes(config, run),
           registry' = [registry EXCEPT ![run].config = config]
    PROVE  /\ DOMAIN registry' = DOMAIN registry
           /\ \A h \in DOMAIN registry : registry'[h].report = registry[h].report
           /\ \A h \in DOMAIN registry' : EntryInv(h)'
<1>1. run \in Reports /\ registry[run] \in Contents
  BY DEF RegistryInv, EntryInv, Contents
<1>2. /\ DOMAIN registry' = DOMAIN registry
      /\ \A h \in DOMAIN registry : h # run => registry'[h] = registry[h]
      /\ registry'[run] = [registry[run] EXCEPT !.config = config]
  OBVIOUS
<1>3. /\ registry'[run] \in Contents
      /\ registry'[run].config = config /\ registry'[run].report = registry[run].report
  BY <1>1, <1>2 DEF Contents
<1>4. EntryInv(run)'
  BY <1>1, <1>3 DEF EntryInv, Contents, Reports, Makes, MadeFrom
<1>5. \A h \in DOMAIN registry : h # run => EntryInv(h)'
  BY <1>2 DEF RegistryInv, EntryInv, Contents, Reports, Makes, MadeFrom
<1> QED
  BY <1>2, <1>3, <1>4, <1>5

LEMMA EmptyConfigInv ==
    ASSUME Inv, NEW p \in Processes, NEW j, job[p] = j, EmptyConfig(p)
    PROVE  Inv'
<1>1. PICK new : new = [j EXCEPT !.step = "fill_config"]
  OBVIOUS
<1>2. /\ j # None /\ j.step = "empty_config" /\ UNCHANGED <<input, outputs, commands>>
      /\ registry' = [registry EXCEPT ![j.run].config = Torn] /\ Go(p, new)
      /\ JobInv(j)
  BY <1>1 DEF EmptyConfig, Inv, TypeInv
<1>3. /\ JobInv(new) /\ new.step = "fill_config"
      /\ new.run = j.run /\ new.rows = j.rows /\ new.record = j.record
  BY <1>1, <1>2, NextFile DEF Writes
<1>4. j.run \in DOMAIN registry /\ registry[j.run].report # None
  BY <1>2 DEF Inv, RegistryInv
<1>5. /\ DOMAIN registry' = DOMAIN registry
      /\ \A h \in DOMAIN registry : registry'[h].report = registry[h].report
      /\ \A h \in DOMAIN registry' : EntryInv(h)'
  BY <1>2, <1>4, ConfigWritten DEF Inv
<1>6. alone[p] => RunOnDisk(j) /\ RowsOnDisk(j)
  BY <1>2, OwnFiles DEF Inv
<1>7. alone[p] => RunOnDisk(new)'
  BY <1>2, <1>3, <1>4, <1>5, <1>6 DEF RunOnDisk, Writes
<1>8. alone[p] => RowsOnDisk(new)'
  BY <1>2, <1>3, <1>5, <1>6 DEF RowsOnDisk, Emptied, OnDisk
<1> QED
  BY <1>2, <1>3, <1>4, <1>5, <1>7, <1>8, GoOnInv DEF commands

LEMMA FillConfigInv ==
    ASSUME Inv, NEW p \in Processes, NEW j, job[p] = j, FillConfig(p)
    PROVE  Inv'
<1>1. PICK config : config = Filled(registry[j.run].config, Text(j))
  OBVIOUS
<1>2. /\ j # None /\ j.step = "fill_config" /\ UNCHANGED <<input, outputs, commands>>
      /\ registry' = [registry EXCEPT ![j.run].config = config] /\ Proceed(p, j)
      /\ JobInv(j)
  BY <1>1 DEF FillConfig, RecordedText, Inv, TypeInv
<1>3. j.run \in DOMAIN registry /\ registry[j.run].report # None
  BY <1>2 DEF Inv, RegistryInv
<1>4. config \in Texts \cup {Torn} /\ (config # Torn => Makes(config, j.run))
  BY <1>1, <1>2, TextOfJob DEF Filled, JobInv, Writes, Makes
<1>5. /\ DOMAIN registry' = DOMAIN registry
      /\ \A h \in DOMAIN registry : registry'[h].report = registry[h].report
      /\ \A h \in DOMAIN registry' : EntryInv(h)'
  BY <1>2, <1>3, <1>4, ConfigWritten DEF Inv
<1>6. alone[p] => RunOnDisk(j) /\ RowsOnDisk(j)
  BY <1>2, OwnFiles DEF Inv
<1>7. alone[p] => \A i \in DOMAIN j.rows : OnDisk(j.rows[i], j.record, "none")'
  BY <1>2, <1>5, <1>6 DEF RowsOnDisk, Emptied, OnDisk
<1>8. Row(j).hash = j.run
  BY <1>2, RowOfJob DEF Writes
<1>9. PICK row : row = Row(j)
  OBVIOUS
<1>10. alone[p] => OnDisk(row, j.record, "none")'
  BY <1>2, <1>3, <1>5, <1>6, <1>8, <1>9 DEF OnDisk, RunOnDisk, Writes
<1>11. j.step \in Writes
  BY <1>2 DEF Writes
<1> QED
  BY <1>2, <1>5, <1>7, <1>9, <1>10, <1>11, ProceedInv DEF commands

-----------------------------------------------------------------------------
LEMMA ListInv ==
    ASSUME Inv, NEW p \in Processes, List(p)
    PROVE  Inv'
<1> DEFINE a == IF \E h \in Listed : registry[h].report = Torn THEN None
                ELSE [printed |-> "listing", by |-> p,
                      lines |-> {Summary(registry[h].report) : h \in Listed}]
<1>1. Answer(p, a) /\ UNCHANGED <<input, outputs, registry, commands>>
  BY DEF List
<1>2. a # None => a.printed = "listing"
  OBVIOUS
<1>3. PICK said : said = a
  OBVIOUS
<1> HIDE DEF a
<1> QED
  BY <1>1, <1>2, <1>3, AnswerOnlyInv

LEMMA StepInv ==
    ASSUME Inv, NEW p \in Processes, Step(p)
    PROVE  Inv'
<1> PICK j : job[p] = j
  OBVIOUS
<1>1. CASE Replay(p)
  BY <1>1, ReplayInv
<1>2. CASE ReadCaptureId(p)
  BY <1>2, ReadCaptureIdInv
<1>3. CASE EmptyOutput(p)
  BY <1>3, EmptyOutputInv
<1>4. CASE FillOutput(p)
  BY <1>4, FillOutputInv
<1>5. CASE EmptyReport(p)
  BY <1>5, EmptyReportInv
<1>6. CASE FillReport(p)
  BY <1>6, FillReportInv
<1>7. CASE EmptyConfig(p)
  BY <1>7, EmptyConfigInv
<1>8. CASE FillConfig(p)
  BY <1>8, FillConfigInv
<1>9. CASE Crash(p)
  BY <1>9, AnswerOnlyInv DEF Crash
<1>10. CASE List(p)
  BY <1>10, ListInv
<1>11. ASSUME NEW h \in DOMAIN registry, Verify(p, h)
       PROVE  Inv'
  BY <1>11, VerifyInv
<1>12. ASSUME NEW h \in DOMAIN registry, VerifyFails(p, h)
       PROVE  Inv'
  BY <1>12, AnswerOnlyInv DEF VerifyFails
<1> QED
  BY <1>1, <1>2, <1>3, <1>4, <1>5, <1>6, <1>7, <1>8, <1>9, <1>10, <1>11, <1>12 DEF Step

LEMMA Invariance == Spec => []Inv
<1>1. Init => Inv
  BY InitInv
<1>2. Inv /\ [Next]_vars => Inv'
  <2> SUFFICES ASSUME Inv, [Next]_vars
      PROVE  Inv'
    OBVIOUS
  <2>1. ASSUME NEW p \in Processes, Step(p)
        PROVE  Inv'
    BY <2>1, StepInv
  <2>2. ASSUME NEW p \in Processes, NEW texts \in Sweeps, NEW record \in BOOLEAN, Start(p, texts, record)
        PROVE  Inv'
    BY <2>2, StartInv
  <2>3. CASE ChangeInput
    BY <2>3, ChangeInputInv
  <2>4. CASE UNCHANGED vars
    BY <2>4, StutterInv
  <2> QED
    BY <2>1, <2>2, <2>3, <2>4 DEF Next
<1> QED
  BY <1>1, <1>2, PTL DEF Spec

-----------------------------------------------------------------------------
\* A config in the registry makes the report it is stored under, and verify, replaying
\* what the run had replayed, says reproduced of the manifest the report names and
\* MISMATCH of any other: whatever died while record_run wrote the two files, however
\* many processes wrote them at once, and however often the directory changed, between
\* the two times a command reads it too.
THEOREM RegistryReproducesTheorem == Spec => []RegistryReproduces
<1>1. Inv => ConfigsBelongToReports
  BY DEF Inv, RegistryInv, EntryInv, Contents, Makes, MadeFrom, ConfigsBelongToReports
<1>2. Inv => RecordedIsReproduced
  <2> SUFFICES ASSUME Inv, NEW run \in made,
                      answer # None, answer.printed = "verdict",
                      answer.hash = run.hash, answer.replayed = run.replayed
      PROVE  answer.reproduced <=> Names(run.hash, answer.named)
    BY DEF RecordedIsReproduced
  <2>1. PICK t \in Texts, d \in Captures : Runs(run.replayed, t) /\ Report(run.replayed, d, t) = run.hash
    BY DEF Inv, MadeInv, MadeFrom
  <2>2. PICK u \in Texts : /\ Makes(u, run.hash)
                           /\ answer.reproduced <=> Report(run.replayed, answer.named, u) = run.hash
    BY DEF Inv, AnswerInv, VerdictInv
  <2>3. PICK b \in Captures, e \in Captures : Runs(b, u) /\ Report(b, e, u) = run.hash
    BY <2>2 DEF Makes, MadeFrom
  <2>4. Report(run.replayed, answer.named, t) = Report(run.replayed, answer.named, u)
    BY <2>1, <2>3, OneConfig
  <2>5. Report(run.replayed, answer.named, t) = run.hash <=> Names(run.hash, answer.named)
    BY <2>1, OneName
  <2> QED
    BY <2>2, <2>4, <2>5
<1>3. Inv => RegistryReproduces
  BY <1>1, <1>2 DEF RegistryReproduces
<1> QED
  BY <1>3, Invariance, PTL

\* The table that run or sweep prints is of files that are there, each whole and with
\* the numbers of its row, and of entries that are listed, if no other process has
\* run since the command began.
THEOREM TableIsOnDiskTheorem == Spec => []TableIsOnDisk
<1>1. Inv => TableIsOnDisk
  <2> SUFFICES ASSUME Inv, answer # None, answer.printed = "table", alone[answer.by],
                      NEW i \in DOMAIN answer.rows
      PROVE  LET row == answer.rows[i]
             IN  /\ row.hash \in DOMAIN outputs /\ outputs[row.hash] = row.hash
                 /\ answer.recorded =>
                        \E line \in {Summary(h) : h \in {g \in Listed : registry[g].report # Torn}} :
                            line.hash = row.hash /\ line.fills = row.fills /\ line.probes = row.probes
    BY DEF TableIsOnDisk
  <2>1. PICK row : row = answer.rows[i]
    OBVIOUS
  <2>2. OnDisk(row, answer.recorded, "none")
    BY <2>1 DEF Inv, AnswerInv, TableInv
  <2>3. row \in Rows
    <3>1. answer.rows \in Seq(Rows)
      BY DEF Inv, AnswerInv, TableInv
    <3> QED
      BY <2>1, <3>1
  <2>4. row.hash \in Reports /\ row.fills = Fills(row.hash) /\ row.probes = Len(row.hash.probes)
    BY <2>3, RowFacts
  <2>5. ASSUME answer.recorded
        PROVE  \E line \in {Summary(h) : h \in {g \in Listed : registry[g].report # Torn}} :
                   line.hash = row.hash /\ line.fills = row.fills /\ line.probes = row.probes
    <3>1. row.hash \in Listed /\ registry[row.hash].report # Torn
      BY <2>2, <2>4, <2>5, ReportsAreFiles DEF OnDisk, Listed
    <3>2. /\ Summary(row.hash).hash = row.hash /\ Summary(row.hash).fills = row.fills
          /\ Summary(row.hash).probes = row.probes
      BY <2>4 DEF Summary
    <3> QED
      BY <3>1, <3>2
  <2> QED
    BY <2>1, <2>2, <2>5 DEF OnDisk
<1> QED
  BY <1>1, Invariance, PTL

-----------------------------------------------------------------------------
\* Whether BookTop's book is broken after each call, as BookTop defines it by recursion.
IsBroken(g, calls, n) ==
    g = [i \in 0..n |-> IF i = 0 THEN FALSE
                        ELSE IF calls[i].on = "snapshot" THEN FALSE
                        ELSE g[i - 1] \/ calls[i].on \in {"gap", "diff_with_hole"}]

LEMMA BrokenExists ==
    ASSUME NEW calls, NEW n \in Nat
    PROVE  \E g : IsBroken(g, calls, n)
<1> DEFINE S == {k \in Nat : \E g : IsBroken(g, calls, k)}
<1>1. 0 \in S
  <2> DEFINE g == [i \in 0..0 |-> FALSE]
  <2>1. IsBroken(g, calls, 0)
    BY DEF IsBroken
  <2> HIDE DEF g
  <2> QED
    BY <2>1
<1>2. ASSUME NEW k \in Nat, k \in S
      PROVE  k + 1 \in S
  <2>1. PICK g : IsBroken(g, calls, k)
    BY <1>2
  <2> DEFINE Next1(f, i) == IF i = 0 THEN FALSE
                            ELSE IF calls[i].on = "snapshot" THEN FALSE
                            ELSE f[i - 1] \/ calls[i].on \in {"gap", "diff_with_hole"}
             h == [i \in 0..k + 1 |-> Next1(g, i)]
  <2>2. \A i \in 0..k : h[i] = g[i]
    <3>1. g = [i \in 0..k |-> Next1(g, i)]
      BY <2>1 DEF IsBroken
    <3>2. \A i \in 0..k : i \in 0..k + 1
      OBVIOUS
    <3> HIDE DEF Next1
    <3> QED
      BY <3>1, <3>2
  <2>3. \A i \in 0..k + 1 : i # 0 => i - 1 \in 0..k
    OBVIOUS
  <2>4. \A i \in 0..k + 1 : Next1(h, i) = Next1(g, i)
    <3> HIDE DEF h
    <3> QED
      BY <2>2, <2>3
  <2>5. h = [i \in 0..k + 1 |-> Next1(h, i)]
    <3> HIDE DEF Next1
    <3> QED
      BY <2>4
  <2>6. IsBroken(h, calls, k + 1)
    <3> HIDE DEF h
    <3> QED
      BY <2>5 DEF IsBroken
  <2> HIDE DEF h
  <2> QED
    BY <2>6
<1> HIDE DEF S
<1>3. Nat \subseteq S
  BY <1>1, <1>2, SetInduction
<1> QED
  BY <1>3 DEF S

\* Two sequences of calls of one length between which BookTop cannot tell.
LEMMA BrokenAgree ==
    ASSUME NEW calls, NEW other, NEW n \in Nat, NEW g, NEW h,
           IsBroken(g, calls, n), IsBroken(h, other, n),
           \A i \in 1..n :
              /\ calls[i].on = "snapshot" <=> other[i].on = "snapshot"
              /\ calls[i].on \in {"gap", "diff_with_hole"} <=> other[i].on \in {"gap", "diff_with_hole"}
    PROVE  \A i \in 0..n : g[i] <=> h[i]
<1> DEFINE S == {k \in Nat : k \in 0..n => (g[k] <=> h[k])}
<1>1. 0 \in S
  BY DEF IsBroken
<1>2. ASSUME NEW k \in Nat, k \in S
      PROVE  k + 1 \in S
  <2>1. CASE k + 1 \in 0..n
    <3>1. k \in 0..n /\ k + 1 \in 1..n /\ k + 1 # 0 /\ (k + 1) - 1 = k /\ (g[k] <=> h[k])
      BY <1>2, <2>1
    <3>2. g[k + 1] = IF calls[k + 1].on = "snapshot" THEN FALSE
                     ELSE g[k] \/ calls[k + 1].on \in {"gap", "diff_with_hole"}
      BY <2>1, <3>1 DEF IsBroken
    <3>3. h[k + 1] = IF other[k + 1].on = "snapshot" THEN FALSE
                     ELSE h[k] \/ other[k + 1].on \in {"gap", "diff_with_hole"}
      BY <2>1, <3>1 DEF IsBroken
    <3>4. g[k + 1] <=> calls[k + 1].on # "snapshot" /\ (g[k] \/ calls[k + 1].on \in {"gap", "diff_with_hole"})
      BY <3>2, Zenon
    <3>5. h[k + 1] <=> other[k + 1].on # "snapshot" /\ (h[k] \/ other[k + 1].on \in {"gap", "diff_with_hole"})
      BY <3>3, Zenon
    <3>6. /\ calls[k + 1].on = "snapshot" <=> other[k + 1].on = "snapshot"
          /\ calls[k + 1].on \in {"gap", "diff_with_hole"} <=> other[k + 1].on \in {"gap", "diff_with_hole"}
      BY <3>1
    <3>7. g[k + 1] <=> h[k + 1]
      BY <3>1, <3>4, <3>5, <3>6, Zenon
    <3> QED
      BY <3>7
  <2> QED
    BY <2>1
<1> HIDE DEF S
<1>3. Nat \subseteq S
  BY <1>1, <1>2, SetInduction
<1> QED
  BY <1>3 DEF S

LEMMA BookTopIs ==
    ASSUME NEW calls
    PROVE  BookTop(calls) =
               {i \in DOMAIN calls : /\ calls[i].on \in {"snapshot", "diff"}
                                     /\ ~(CHOOSE g : IsBroken(g, calls, Len(calls)))[i]}
BY DEF BookTop, IsBroken

LEMMA BookTopAgrees ==
    ASSUME NEW S, NEW T, NEW calls \in Seq(S), NEW other \in Seq(T), Len(other) = Len(calls),
           \A i \in DOMAIN calls :
              /\ calls[i].on \in Forwarded => other[i].on = calls[i].on
              /\ calls[i].on \notin Forwarded => other[i].on \notin Forwarded
    PROVE  BookTop(other) = BookTop(calls)
<1> DEFINE n == Len(calls)
           g == CHOOSE f : IsBroken(f, calls, n)
           h == CHOOSE f : IsBroken(f, other, n)
<1>1. n \in Nat /\ DOMAIN calls = 1..n /\ DOMAIN other = 1..n
  OBVIOUS
<1>2. IsBroken(g, calls, n) /\ IsBroken(h, other, n)
  BY <1>1, BrokenExists
<1>3. \A i \in 1..n :
          /\ calls[i].on = "snapshot" <=> other[i].on = "snapshot"
          /\ calls[i].on \in {"gap", "diff_with_hole"} <=> other[i].on \in {"gap", "diff_with_hole"}
          /\ calls[i].on \in {"snapshot", "diff"} <=> other[i].on \in {"snapshot", "diff"}
  <2> SUFFICES ASSUME NEW i \in 1..n
      PROVE  /\ calls[i].on = "snapshot" <=> other[i].on = "snapshot"
             /\ calls[i].on \in {"gap", "diff_with_hole"} <=> other[i].on \in {"gap", "diff_with_hole"}
             /\ calls[i].on \in {"snapshot", "diff"} <=> other[i].on \in {"snapshot", "diff"}
    OBVIOUS
  <2>1. \/ other[i].on = calls[i].on
        \/ calls[i].on \notin Forwarded /\ other[i].on \notin Forwarded
    BY <1>1
  <2> QED
    BY <2>1 DEF Forwarded
<1>4. BookTop(calls) = {i \in 1..n : calls[i].on \in {"snapshot", "diff"} /\ ~g[i]}
  BY <1>1, BookTopIs
<1>5. BookTop(other) = {i \in 1..n : other[i].on \in {"snapshot", "diff"} /\ ~h[i]}
  BY <1>1, BookTopIs
<1> HIDE DEF g, h, n
<1>6. \A i \in 0..n : g[i] <=> h[i]
  BY <1>1, <1>2, <1>3, BrokenAgree
<1>7. \A i \in 1..n : g[i] <=> h[i]
  BY <1>1, <1>6
<1> QED
  BY <1>3, <1>4, <1>5, <1>7

\* What HarnessStrategy keeps to its collectors BookTop would not have listened to.
LEMMA HarnessHandsOn ==
    ASSUME NEW c \in Captures
    PROVE  HarnessSignals("book-top", c.calls) = Signals("book-top", c.calls)
<1> DEFINE calls == c.calls
           other == [i \in DOMAIN calls |-> IF calls[i].on \in Forwarded THEN calls[i] ELSE [on |-> "nothing"]]
           T == Range(calls) \cup {[on |-> "nothing"]}
<1>1. calls \in Seq(Range(calls))
  BY HarnessAssumption
<1>2. \A i \in DOMAIN calls : calls[i] \in Range(calls)
  BY DEF Range
<1>3. other \in Seq(T) /\ Len(other) = Len(calls)
  <2> HIDE DEF calls
  <2>1. DOMAIN calls = 1..Len(calls) /\ Len(calls) \in Nat
    BY <1>1
  <2>2. other \in [1..Len(calls) -> T]
    BY <1>2, <2>1
  <2> QED
    BY <2>1, <2>2
<1>4. "nothing" \notin Forwarded
  BY DEF Forwarded
<1>5. \A i \in DOMAIN calls :
         /\ calls[i].on \in Forwarded => other[i].on = calls[i].on
         /\ calls[i].on \notin Forwarded => other[i].on \notin Forwarded
  BY <1>4
<1>6. HarnessSignals("book-top", calls) = Signals("book-top", other)
  BY DEF HarnessSignals
<1> HIDE DEF calls, other, T
<1>7. BookTop(other) = BookTop(calls)
  BY <1>1, <1>3, <1>5, BookTopAgrees
<1>8. HarnessSignals("book-top", calls) = Signals("book-top", calls)
  BY <1>6, <1>7 DEF Signals
<1> QED
  BY <1>8 DEF calls

\* The signals of a recorded report are those of a replay with BookTop itself, of what
\* was replayed for it, though HarnessStrategy hands on by hand which calls it gets.
THEOREM BookSignalsTheorem == Spec => []BookSignalsAreTheReplays
<1>1. Inv => BookSignalsAreTheReplays
  <2> SUFFICES ASSUME Inv, NEW run \in made, run.hash.strategy = "book-top"
      PROVE  run.hash.signals = Signals("book-top", run.replayed.calls)
    BY DEF BookSignalsAreTheReplays
  <2>1. PICK t \in Texts, d \in Captures : Runs(run.replayed, t) /\ Report(run.replayed, d, t) = run.hash
    BY DEF Inv, MadeInv, MadeFrom
  <2>2. /\ run.hash.strategy = t.config.strategy
        /\ run.hash.signals = HarnessSignals(t.config.strategy, run.replayed.calls)
    <3>1. /\ Report(run.replayed, d, t).strategy = t.config.strategy
          /\ Report(run.replayed, d, t).signals = HarnessSignals(t.config.strategy, run.replayed.calls)
      BY DEF Report
    <3> QED
      BY <2>1, <3>1
  <2>3. run.replayed \in Captures
    BY DEF Inv, MadeInv
  <2> QED
    BY <2>2, <2>3, HarnessHandsOn
<1> QED
  BY <1>1, Invariance, PTL
=============================================================================
