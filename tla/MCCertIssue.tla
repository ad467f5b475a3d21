---- MODULE MCCertIssue ----
EXTENDS CertIssue, TLC
CiSymmetry == Permutations(CiTasks)
====
