------------------------------ MODULE MCIpuDma ------------------------------
(* Instances of IpuDma for TLC. *)
EXTENDS IpuDma, TLC

\* Threads are alike, and so are pages.
DmaSymmetry == Permutations(Client) \cup Permutations(Page)
=============================================================================
