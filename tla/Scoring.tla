------------------------------ MODULE Scoring -------------------------------
(***************************************************************************)
(* core/correlator.py, _score_event: the score of one event, from the      *)
(* rules on its file name and its syscall; and what core/policy_engine.py  *)
(* makes of it if it is the only event of its story.                       *)
(*                                                                         *)
(* A file name is the sequence of its components, what is between the      *)
(* slashes: <<"", "etc", "shadow">> is /etc/shadow, <<"">> the empty name. *)
(* startswith and endswith with a rule that begins with a slash are then   *)
(* about leading and trailing components.                                  *)
(*                                                                         *)
(* The state is an event being made up: a call, and a file name that gets  *)
(* longer at its end (a file deeper down) or at its front (the same file   *)
(* seen through a mount).                                                  *)
(***************************************************************************)
EXTENDS Integers, SequencesExt, FiniteSetsExt

CONSTANTS
    Steps,          \* what file names are made of: sequences of components
    MaxComponents,  \* bound of the components of a file name
    WarnThreshold,  \* thresholds.warn of policies.yaml
    KillThreshold   \* thresholds.kill of policies.yaml

Components == {""} \cup UNION {Range(step) : step \in Steps}
Name == Seq(Components) \ {<<>>}

ASSUME StepsAssumption == Steps \subseteq Name
ASSUME ThresholdsAssumption == WarnThreshold \in Int /\ KillThreshold \in Int

VARIABLES
    filename,   \* e.filename
    syscall     \* the name of e.syscall_type

eventVars == <<filename, syscall>>

Rule(path, weight) == [path |-> path, weight |-> weight]

SUSPICIOUS_PATH_PREFIXES == <<
    Rule(<<"", "etc", "shadow">>, 60),
    Rule(<<"", "etc", "kubernetes">>, 40),
    Rule(<<"", "var", "lib", "kubelet", "pods">>, 50),
    Rule(<<"", "proc", "1", "root">>, 100),
    Rule(<<"", "proc", "1", "ns">>, 100),
    Rule(<<"", "host">>, 30) >>

SUSPICIOUS_PATH_SUFFIXES == <<
    Rule(<<"", "etc", "shadow">>, 60),
    Rule(<<"", "etc", "kubernetes", "pki", "ca.key">>, 100),
    Rule(<<"", "etc", "kubernetes", "admin.conf">>, 100),
    Rule(<<"", ".ssh", "id_rsa">>, 60),
    Rule(<<"", ".ssh", "authorized_keys">>, 60) >>

SUSPICIOUS_FILENAMES(base) ==
    IF base \in {"docker.sock", "containerd.sock", "crio.sock"} THEN 100 ELSE 0

\* The mutated form: the weight setns had at first (correlator.py:107).
SyscallsSetns70(name) ==
    CASE name \in {"mount", "move_mount", "fsmount", "setns"} -> 70
      [] name \in {"pivot_root", "init_module", "finit_module",
                   "delete_module"} -> 100
      [] name = "chroot" -> 50
      [] name = "ptrace" -> 40
      [] name = "open_tree" -> 20
      [] OTHER -> 0

SUSPICIOUS_SYSCALLS(name) ==
    CASE name \in {"pivot_root", "setns", "init_module", "finit_module",
                   "delete_module"} -> 100
      [] name \in {"mount", "move_mount", "fsmount"} -> 70
      [] name = "chroot" -> 50
      [] name = "ptrace" -> 40
      [] name = "open_tree" -> 20
      [] OTHER -> 0

\* The probes of syscall_tracer.py, by what they do next to reporting.
RedLineCalls ==
    {"pivot_root", "setns", "init_module", "finit_module", "delete_module"}
ArmableCalls == {"chroot", "mount", "move_mount", "fsmount", "ptrace"}
ReportedCalls == {"execve", "openat", "open_tree", "connect"}
Syscalls == RedLineCalls \cup ArmableCalls \cup ReportedCalls

\* The probes that copy a name into the event.
NamingCalls == Syscalls \ {"fsmount", "ptrace", "init_module", "setns"}

-----------------------------------------------------------------------------

\* The mutated form: `prefix in filename`, which matched /etc/hosts.
Begins(name, component) ==
    name = component \/ <<name, component>> = <<"host", "hosts">>
PathMatchesSubstring(name, prefix) ==
    \E i \in 1 .. Len(name) - Len(prefix) + 2 :
        \A j \in 2 .. Len(prefix) :
            /\ i + j - 2 \in DOMAIN name
            /\ Begins(prefix[j], name[i + j - 2])

\* _path_matches: the name is the prefix, or goes on after it with a slash.
PathMatches(name, prefix) == IsPrefix(prefix, name)

\* The mutated form: the canonical path only.
EndsWithWhole(name, suffix) == name = suffix

\* name.endswith(suffix), for a suffix that begins with a slash.
EndsWith(name, suffix) == Len(name) >= Len(suffix) /\ IsSuffix(Tail(suffix), name)

\* A loop over a table: what the rules that hit weigh together.
Weigh(table, hits) ==
    LET sum[n \in 0 .. Len(table)] ==
            IF n = 0 THEN 0
            ELSE sum[n-1] + (IF n \in hits THEN table[n].weight ELSE 0)
    IN  sum[Len(table)]

\* The prefixes that score, and the one of them that matched last.
PrefixHits(name) ==
    {n \in DOMAIN SUSPICIOUS_PATH_PREFIXES :
        PathMatches(name, SUSPICIOUS_PATH_PREFIXES[n].path)}
MatchedPrefix(name) ==
    IF PrefixHits(name) = {} THEN <<>>
    ELSE SUSPICIOUS_PATH_PREFIXES[Max(PrefixHits(name))].path

\* The mutated forms: no suffix is skipped, or all are once a prefix matched.
SuffixHitsAll(name, matched) ==
    {n \in DOMAIN SUSPICIOUS_PATH_SUFFIXES :
        EndsWith(name, SUSPICIOUS_PATH_SUFFIXES[n].path)}
SuffixHitsElse(name, matched) ==
    IF matched = <<>> THEN SuffixHitsAll(name, matched) ELSE {}

\* The suffixes that score: the one that is matched already is skipped.
SuffixHits(name, matched) ==
    {n \in DOMAIN SUSPICIOUS_PATH_SUFFIXES :
        /\ SUSPICIOUS_PATH_SUFFIXES[n].path # matched
        /\ EndsWith(name, SUSPICIOUS_PATH_SUFFIXES[n].path)}

\* _score_event
ScoreEvent(name, call) ==
    Weigh(SUSPICIOUS_PATH_PREFIXES, PrefixHits(name))
        + Weigh(SUSPICIOUS_PATH_SUFFIXES, SuffixHits(name, MatchedPrefix(name)))
        + SUSPICIOUS_FILENAMES(Last(name)) + SUSPICIOUS_SYSCALLS(call)

\* evaluate, for a story of this event alone.
Verdict ==
    LET score == ScoreEvent(filename, syscall)
    IN  IF score >= KillThreshold THEN "KILL"
        ELSE IF score >= WarnThreshold THEN "WARN" ELSE "ALLOW"

-----------------------------------------------------------------------------

Init ==
    /\ syscall \in Syscalls
    /\ filename \in {<<"">>} \cup {step \in Steps : syscall \in NamingCalls}

\* A file further down.
Descend(step) ==
    /\ syscall \in NamingCalls
    /\ Len(filename) + Len(step) <= MaxComponents
    /\ filename' = filename \o step
    /\ UNCHANGED syscall

\* The same absolute name under a mount point.
SeeThrough(step) ==
    /\ filename[1] = "" /\ Len(filename) > 1
    /\ Len(filename) + Len(step) <= MaxComponents
    /\ filename' = <<"">> \o step \o Tail(filename)
    /\ UNCHANGED syscall

Next == \E step \in Steps : Descend(step) \/ SeeThrough(step)

Spec == Init /\ [][Next]_eventVars

-----------------------------------------------------------------------------

\* The reference: what there is to say against a file name.  Each sign is in
\* the book once: /etc/shadow, the first of the suffixes, is also a prefix.
RuleBook == SUSPICIOUS_PATH_PREFIXES \o Tail(SUSPICIOUS_PATH_SUFFIXES)

LiesUnder(name, path) == \E n \in DOMAIN name : SubSeq(name, 1, n) = path
IsCopyOf(name, path) ==
    \E n \in DOMAIN name : SubSeq(name, n + 1, Len(name)) = Tail(path)

Signs(name) ==
    {n \in DOMAIN RuleBook :
        \/ /\ n \in DOMAIN SUSPICIOUS_PATH_PREFIXES
           /\ LiesUnder(name, RuleBook[n].path)
        \/ /\ n \notin 2 .. Len(SUSPICIOUS_PATH_PREFIXES)
           /\ IsCopyOf(name, RuleBook[n].path)}

\* Every sign counts, and none counts twice: the score is the sum over the
\* signs, though a rule may be in two tables, both of which match, and the
\* loop remembers one prefix only (correlator.py:226-233).
EverySignOnce ==
    ScoreEvent(filename, syscall) =
        Weigh(RuleBook, Signs(filename))
            + SUSPICIOUS_FILENAMES(Last(filename)) + SUSPICIOUS_SYSCALLS(syscall)

\* One suspicion is no verdict: to kill for a single event takes a sign that
\* is conclusive by itself, or two signs (correlator.py:62-65).
NoVerdictOnOneSuspicion ==
    LET socket == SUSPICIOUS_FILENAMES(Last(filename))
        call == SUSPICIOUS_SYSCALLS(syscall)
    IN  Verdict = "KILL" =>
            \/ \E n \in Signs(filename) : RuleBook[n].weight >= KillThreshold
            \/ socket >= KillThreshold
            \/ call >= KillThreshold
            \/ Cardinality(Signs(filename)) + (IF socket > 0 THEN 1 ELSE 0)
                 + (IF call > 0 THEN 1 ELSE 0) >= 2

\* Names that only look like a rule's score nothing: a file name without a
\* component that a rule ends with is harmless (the outage of
\* correlator.py:25-32, where /etc/hosts matched /host).
HarmlessNames ==
    LET sensitive == {Last(rule.path) : rule \in Range(RuleBook)}
                         \cup {"docker.sock", "containerd.sock", "crio.sock"}
    IN  Range(filename) \cap sensitive = {} =>
            ScoreEvent(filename, syscall) = SUSPICIOUS_SYSCALLS(syscall)

\* What the kernel kills for without asking is a KILL for the policy, and
\* what it kills for once armed at least a WARN, whatever the event says
\* (correlator.py:105): where the kernel is not to kill, or the map has no
\* room, user space still answers.
KernelLinesAgree ==
    /\ syscall \in RedLineCalls => Verdict = "KILL"
    /\ syscall \in ArmableCalls => Verdict # "ALLOW"

\* "Sensitive files that are dangerous in ANY location" (correlator.py:57):
\* whatever its canonical name scores, the same file seen through a mount
\* scores the weight of the file at least.
SensitiveAnywhere ==
    [][\A n \in DOMAIN SUSPICIOUS_PATH_SUFFIXES :
          LET rule == SUSPICIOUS_PATH_SUFFIXES[n]
          IN  filename = rule.path /\ (\E step \in Steps : SeeThrough(step)) =>
                  ScoreEvent(filename', syscall') >= rule.weight]_eventVars

=============================================================================
