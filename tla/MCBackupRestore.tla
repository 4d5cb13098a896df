---------------------------- MODULE MCBackupRestore ----------------------------
(* Instances of BackupRestore for TLC.                                     *)
EXTENDS BackupRestore

CONSTANTS p, o, n, c

Archive(listed, databases, registered, active) ==
    [sound |-> TRUE, listed |-> listed, adi |-> listed, databases |-> databases,
     registered |-> registered, active |-> active, manifestActive |-> active]

(* Whole backups, one with a database that is not listed; a member with an *)
(* unsafe name, missing ADI files, a missing database, and registries that *)
(* have another profile, or another active one, than the manifest.         *)
SomeArchives ==
    LET whole == Archive({p, n}, {p, n}, {p, n}, p)
    IN  {whole, Archive({n}, {p, n}, {n}, None),
         [whole EXCEPT !.sound = FALSE], [whole EXCEPT !.adi = {p}],
         [whole EXCEPT !.databases = {p}], [whole EXCEPT !.registered = {p, n, o}],
         [whole EXCEPT !.manifestActive = n]}
===============================================================================
