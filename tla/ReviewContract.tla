--------------------------- MODULE ReviewContract ---------------------------
(* What human review promises the benchmark, whatever the files, commands  *)
(* and editors behind it do: a label stands for a case because somebody    *)
(* attested it, and it counts only while the case and the whole dataset    *)
(* are the ones it was attested for.                                       *)
EXTENDS FiniteSets

CONSTANTS
  Cases,
  Contents,  \* what a case's files may hold
  Labels,    \* ground-truth labels
  Nobody     \* no attestation, and the label of an abstention

VARIABLES
  bundle,    \* bundle[c]: content of c's files
  rows,      \* rows[c]: the content the dataset manifest lists for c
  attested,  \* attestations made
  standing   \* standing[c]: the attestation recorded for c

datasetVars == <<bundle, rows>>
attestationVars == <<attested, standing>>

Attestation(c, label) ==
  [case |-> c, source |-> [manifest |-> rows, content |-> bundle[c]], label |-> label]

Listed(c) == rows[c] = bundle[c]

(* The label of c counts. *)
Accepts(c) ==
  /\ standing[c] # Nobody /\ standing[c].label # Nobody
  /\ Listed(c) /\ standing[c].source = [manifest |-> rows, content |-> bundle[c]]
-----------------------------------------------------------------------------
Rewrite(c, k) ==
  /\ bundle' = [bundle EXCEPT ![c] = k]
  /\ UNCHANGED <<rows, attestationVars>>

WriteManifest ==
  /\ rows' = bundle
  /\ UNCHANGED <<bundle, attestationVars>>

Attest(c, label) ==
  /\ Listed(c)
  /\ attested' = attested \cup {Attestation(c, label)}
  /\ UNCHANGED <<datasetVars, standing>>

Record(a) ==
  /\ standing' = [standing EXCEPT ![a.case] = a]
  /\ UNCHANGED <<datasetVars, attested>>

Withdraw(c) ==
  /\ standing' = [standing EXCEPT ![c] = Nobody]
  /\ UNCHANGED <<datasetVars, attested>>

ContractInit ==
  /\ bundle \in [Cases -> Contents] /\ rows = bundle
  /\ attested = {} /\ standing = [c \in Cases |-> Nobody]

ContractNext ==
  \/ \E c \in Cases :
       \/ \E k \in Contents : Rewrite(c, k)
       \/ \E label \in Labels \cup {Nobody} : Attest(c, label)
       \/ Withdraw(c)
  \/ WriteManifest
  \/ \E a \in attested : Record(a)

ContractSpec == ContractInit /\ [][ContractNext]_<<datasetVars, attestationVars>>
=============================================================================
