------------------------------ MODULE CsrBuffer -------------------------------
(***************************************************************************)
(* csr_buffer.sv: one entry that keeps the address of the CSR instruction  *)
(* in flight until it commits.  The address is represented by the          *)
(* transaction id of the instruction it belongs to.                        *)
(***************************************************************************)
EXTENDS Naturals

VARIABLES csr_address, csr_valid

csrbufvars == <<csr_address, csr_valid>>

CsrBufferInit == csr_address = 0 /\ csr_valid = FALSE

\* Mutant: the entry that is arriving this cycle is not counted.
csr_ready_o_registered(csr_valid_i, csr_commit_i) == ~csr_valid \/ csr_commit_i

csr_ready_o(csr_valid_i, csr_commit_i) == ~(csr_valid \/ csr_valid_i) \/ csr_commit_i

CsrBufferCycle(flush_i, csr_valid_i, id, csr_commit_i) ==
    /\ csr_address' = IF csr_valid_i THEN id ELSE csr_address
    /\ csr_valid' = (~flush_i /\ (csr_valid_i \/ (csr_valid /\ ~csr_commit_i)))
=============================================================================
