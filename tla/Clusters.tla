------------------------------ MODULE Clusters ------------------------------
(***************************************************************************)
(* The findings of a run and the clusters of their root causes             *)
(* (engine/crash.go, cluster.go).  Of the findings only the signature, the *)
(* key of the cause and the severity matter here; CrashLog says which      *)
(* crashes are reported and with what.                                     *)
(***************************************************************************)
EXTENDS Integers, SequencesExt

VARIABLES
    findings,   \* the crashes in f.findings, one per signature in uniqueCrashKeys
    clusters    \* f.clusters: key -> [variants, max, rep]

ClustersInit == findings = <<>> /\ clusters = <<>>

Known(sig) == \E i \in DOMAIN findings : findings[i].sig = sig

NewCluster(sig, severity) == [variants |-> 1, max |-> severity, rep |-> sig]

\* Mutant of Folded: the first variant represents the cluster for good.
FoldedFirst(c, sig, severity) ==
    [variants |-> c.variants + 1, max |-> IF severity > c.max THEN severity ELSE c.max, rep |-> c.rep]

\* The worst variant represents the cluster.
Folded(c, sig, severity) ==
    IF severity > c.max THEN [variants |-> c.variants + 1, max |-> severity, rep |-> sig]
    ELSE [variants |-> c.variants + 1, max |-> c.max, rep |-> c.rep]

RecordCluster(key, sig, severity) ==
    clusters' = [k \in DOMAIN clusters \cup {key} |->
                   IF k # key THEN clusters[k]
                   ELSE IF key \in DOMAIN clusters THEN Folded(clusters[key], sig, severity)
                   ELSE NewCluster(sig, severity)]

\* recordCrash for a signature that is not known.
Report(finding) ==
    /\ ~Known(finding.sig)
    /\ findings' = Append(findings, finding)
    /\ RecordCluster(finding.key, finding.sig, finding.severity)

\* Whatever is reported.
ClustersNext == \E finding : finding.severity \in Int /\ Report(finding)
ClustersSpec == ClustersInit /\ [][ClustersNext]_<<findings, clusters>>

-----------------------------------------------------------------------------

\* Every finding counts once in the cluster of its root cause, and a cluster is
\* represented by the worst of its findings.
ClustersAccount ==
    \A key \in DOMAIN clusters \cup {findings[i].key : i \in DOMAIN findings} :
        LET mine == {i \in DOMAIN findings : findings[i].key = key}
        IN /\ key \in DOMAIN clusters /\ clusters[key].variants = Cardinality({findings[i].sig : i \in mine})
           /\ Cardinality(mine) = clusters[key].variants
           /\ clusters[key].max = Max({findings[i].severity : i \in mine})
           /\ \E i \in mine : findings[i].sig = clusters[key].rep /\ findings[i].severity = clusters[key].max
=============================================================================
