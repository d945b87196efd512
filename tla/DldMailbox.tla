----------------------------- MODULE DldMailbox -----------------------------
(***************************************************************************)
(* The 72-byte command block in PRU0 data RAM (include/dld_abi.h) through  *)
(* which the host and the PRU firmware talk, and the guards that decide    *)
(* whether it holds a usable session.                                      *)
(*                                                                         *)
(* Abstractions: magic, abi_version and profile_id are one flag, "is this  *)
(* a compatible block"; the six string lengths are the set of banks with a *)
(* nonzero length; a sequence number is a word that wraps at SeqMod.       *)
(***************************************************************************)
EXTENDS Integers, FiniteSets

CONSTANTS SeqMod,  \* a u32 sequence word has this many values (2^32 in the code)
          Colors,  \* 24-bit colours, in the profile's wire order
          Black,   \* the colour zero
          Layouts  \* the sets of nonempty banks that a dld-init may configure

ASSUME SeqModAssumption == SeqMod \in Nat /\ SeqMod >= 2
ASSUME BlackAssumption == Black \in Colors

Bank == 1..3                      \* GPIO2, GPIO1, GPIO0: the transmit order

ASSUME LayoutsAssumption == Layouts \subseteq SUBSET Bank

Ordinal == 0..3                   \* a bank, or 0 for none
Slot == 1..4                      \* a bank, or 4 past the last one
Seqs == 0..(SeqMod - 1)
Status == {"INITIALIZING", "READY", "RUNNING", "DONE", "WAIT_BANK", "ERROR"}
Detail == {"NONE", "MAGIC", "INIT_CLEAR", "BANK_CLEAR", "GATE"}

Mailbox == [magic : BOOLEAN, lens : SUBSET Bank, color : Colors,
            req : Seqs, comp : Seqs, acc : Seqs, status : Status, err : Detail,
            ready : Ordinal, grant : Ordinal, done : Ordinal]

NextSeq(s) == IF s + 1 = SeqMod THEN 0 ELSE s + 1

(***************************************************************************)
(* The ordinal of the last bank with anything to transmit, 0 when every    *)
(* string is empty.                                                        *)
(***************************************************************************)
LastBank(lens) == IF 3 \in lens THEN 3 ELSE IF 2 \in lens THEN 2
                  ELSE IF 1 \in lens THEN 1 ELSE 0

\* The first bank from b on with anything to transmit, 4 when there is none.
FirstBank(lens, b) == CHOOSE c \in b..4 : /\ c \in lens \cup {4}
                                          /\ \A d \in lens : d >= b => d >= c

Outstanding(m) == \/ m.status \in {"RUNNING", "WAIT_BANK"}
                  \/ m.req # m.comp

(***************************************************************************)
(* dld_check_mailbox: the exit code a userspace command derives from a     *)
(* snapshot of the block before it may send.                               *)
(***************************************************************************)
CheckMailbox(m) ==
  LET usable    == /\ m.magic
                   /\ m.err = "NONE"
                   /\ m.status \in {"READY", "DONE", "RUNNING", "WAIT_BANK"}
      last      == LastBank(m.lens)
      quiescent == /\ m.ready = 0
                   /\ m.acc = m.comp
                   /\ IF m.status = "READY"
                      THEN m.req = 0 /\ m.done = 0 /\ m.grant = 0
                      ELSE m.done = last /\ m.grant = last
  IN IF ~usable THEN "NOT_INITIALIZED"
     ELSE IF Outstanding(m) THEN "BUSY"
     ELSE IF quiescent THEN "OK" ELSE "NOT_INITIALIZED"

(***************************************************************************)
(* validate: the kernel helper's own guard, under its mutex, against the   *)
(* lengths lens and the sequence prev that the caller read earlier.        *)
(***************************************************************************)
Validate(m, lens, prev) ==
  LET compatible == m.magic /\ m.lens = lens /\ m.err = "NONE" /\ m.status # "ERROR"
      last       == LastBank(lens)
      quiescent  == /\ m.status \in {"READY", "DONE"}
                    /\ m.req = prev
                    /\ m.ready = 0
                    /\ IF m.status = "READY"
                       THEN m.req = 0 /\ m.acc = 0 /\ m.grant = 0 /\ m.done = 0
                       ELSE m.acc = m.req /\ m.grant = last /\ m.done = last
  IN IF ~compatible THEN "EPROTO"
     ELSE IF Outstanding(m) THEN "EBUSY"
     ELSE IF quiescent THEN "OK" ELSE "EPROTO"

(***************************************************************************)
(* wait_ready's test: the firmware reports READY with every sequence and   *)
(* gate word zero.                                                         *)
(***************************************************************************)
InitReady(m) == /\ m.err = "NONE"
                /\ m.status = "READY"
                /\ m.req = 0 /\ m.comp = 0 /\ m.acc = 0
                /\ m.ready = 0 /\ m.grant = 0 /\ m.done = 0

CompletionMatches(m, seq) == /\ m.status = "DONE"
                             /\ m.err = "NONE"
                             /\ m.comp = seq
=============================================================================
