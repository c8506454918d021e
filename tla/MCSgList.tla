------------------------------ MODULE MCSgList ------------------------------
EXTENDS SgList, SequencesExt

MCEntries  == [pointer : {0, 2, 4, 8}, length : {2, 4}]
MCScatters ==
    {s \in BoundedSeq(MCEntries, 3) :
        /\ s # <<>>
        /\ \A j, k \in DOMAIN s : j # k => Disjoint(s[j], s[k])}
=============================================================================
