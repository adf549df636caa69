------------------------------ MODULE UrsFile ------------------------------
(***************************************************************************)
(* The URS stubs of src/snarky-bn382/src/lib.rs that touch the file       *)
(* system (fp_urs_create/write/read, lines 1108-1127; the Fq ones at       *)
(* 1211-1229 are the same code over SRS).  A URS is kept on disk between  *)
(* runs of the program, so the files outlive the process: a process may   *)
(* panic or be killed at any point and a new one starts with the files    *)
(* the old one left.                                                       *)
(*                                                                         *)
(* The caller's path is a C string; the stubs turn it into a file name    *)
(* with to_string_lossy.  A URS is a model value (URS::create draws it    *)
(* from OsRng, so each create gives a new one); its serialised form is    *)
(* abstracted to "complete" or "partial": URS::read of a partial file     *)
(* fails.                                                                  *)
(***************************************************************************)
EXTENDS Naturals, Sequences, FiniteSets

CONSTANTS
  Urss,       \* the URSs urs_create can return
  CPaths,     \* the C strings the caller passes as paths (byte sequences)
  Creatable,  \* the file names File::create can open (their directory exists)
  NoUrs       \* no URS: the contents of an absent or partial file

\* Paths are NUL-free (CStr::from_ptr stops at the NUL), made of ASCII and
\* the bytes 0xFE and 0xFF, which never occur in UTF-8.
ASSUME \A c \in CPaths : \A i \in DOMAIN c : c[i] \in (1..127) \cup {254, 255}

ASSUME NoUrs \notin Urss

VARIABLES
  files,    \* file name -> [state, urs] on disk
  created,  \* the URSs created so far, by any process
  held,     \* the URSs the running process holds handles to
  status    \* "running" or "panicked"

uvars == <<files, created, held, status>>

(* String::from_utf8_lossy / to_string_lossy: each byte that is not valid *)
(* UTF-8 becomes U+FFFD (for these bytes, one replacement per byte).      *)
ToStringLossy(c) == [i \in DOMAIN c |-> IF c[i] < 128 THEN c[i] ELSE 65533]

FileNames == {ToStringLossy(c) : c \in CPaths}

Absent == [state |-> "absent", urs |-> NoUrs]

-----------------------------------------------------------------------------
Init ==
  /\ files = [f \in FileNames |-> Absent]
  /\ created = {}
  /\ held = {}
  /\ status = "running"

(* camlsnark_bn382_fp_urs_create (lib.rs:1109-1111): a fresh URS.         *)
UrsCreate ==
  /\ status = "running"
  /\ \E u \in Urss \ created :
       /\ created' = created \cup {u}
       /\ held' = held \cup {u}
  /\ UNCHANGED <<files, status>>

(* camlsnark_bn382_fp_urs_write (lib.rs:1114-1119): File::create(path)    *)
(* .unwrap() panics when the file cannot be created, and truncates it     *)
(* otherwise; then urs.write(file), whose error is discarded: a write     *)
(* that fails part-way (or a process killed during it) leaves a partial   *)
(* file and the call still returns.                                       *)
UrsWrite(u, c) ==
  LET f == ToStringLossy(c) IN
  /\ status = "running"
  /\ u \in held
  /\ IF f \notin Creatable
     THEN /\ status' = "panicked"
          /\ UNCHANGED files
     ELSE /\ \E ok \in BOOLEAN :
               files' = [files EXCEPT ![f] = IF ok THEN [state |-> "complete", urs |-> u]
                                                   ELSE [state |-> "partial", urs |-> NoUrs]]
          /\ UNCHANGED status
  /\ UNCHANGED <<created, held>>

(* Seeded fault: the result of URS::read used without its error checked. *)
UrsReadUnchecked(c) ==
  LET f == ToStringLossy(c) IN
  /\ status = "running"
  /\ IF files[f].state = "absent"
     THEN /\ status' = "panicked"
          /\ UNCHANGED held
     ELSE /\ held' = held \cup {files[f].urs}
          /\ UNCHANGED status
  /\ UNCHANGED <<files, created>>

(* camlsnark_bn382_fp_urs_read (lib.rs:1122-1127): File::open(path)       *)
(* .unwrap() panics on a missing file, URS::read(file).unwrap() on a      *)
(* partial one; otherwise the process holds the URS read.                 *)
UrsRead(c) ==
  LET f == ToStringLossy(c) IN
  /\ status = "running"
  /\ IF files[f].state = "complete"
     THEN /\ held' = held \cup {files[f].urs}
          /\ UNCHANGED status
     ELSE /\ status' = "panicked"
          /\ UNCHANGED held
  /\ UNCHANGED <<files, created>>

(* The process ends, by a panic, a kill or an exit, and a new one starts: *)
(* its handles are gone, the files stay.                                  *)
Restart ==
  /\ held' = {}
  /\ status' = "running"
  /\ UNCHANGED <<files, created>>

Next ==
  \/ UrsCreate
  \/ \E u \in Urss, c \in CPaths : UrsWrite(u, c)
  \/ \E c \in CPaths : UrsRead(c)
  \/ Restart

Spec == Init /\ [][Next]_uvars

-----------------------------------------------------------------------------
TypeOK ==
  /\ files \in [FileNames -> [state : {"absent", "partial", "complete"},
                              urs : Urss \cup {NoUrs}]]
  /\ held \subseteq created
  /\ created \subseteq Urss
  /\ status \in {"running", "panicked"}

=============================================================================
