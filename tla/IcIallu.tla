------------------------------ MODULE IcIallu ------------------------------
(***************************************************************************)
(* The kernel module of src/kernel_moudle/ic-moudle/ic-iallu.c: a device   *)
(* whose write invalidates the instruction cache of the CPU it runs on.    *)
(*                                                                         *)
(* The module has neither .owner in its file operations nor in its cdev:   *)
(* an open descriptor does not keep it from being removed.                 *)
(***************************************************************************)
EXTENDS Naturals

VARIABLES
    ic_iallu,       \* the module: see IcIalluTypeOK
    registered      \* what the kernel holds for it

icVars == <<ic_iallu, registered>>

Registrations == {"region", "class", "device", "cdev"}

IcIalluInit == ic_iallu = "unloaded" /\ registered = {}

-----------------------------------------------------------------------------
(* ic_iallu_init: one call after the other, each of which may fail *)

IcInsmod ==
    /\ ic_iallu = "unloaded"
    /\ ic_iallu' = "region"     \* what it registers next
    /\ UNCHANGED registered

After == [region |-> "class", class |-> "device", device |-> "cdev", cdev |-> "loaded"]

Register ==
    /\ ic_iallu \in Registrations
    /\ ic_iallu \notin registered
    /\ registered' = registered \cup {ic_iallu}
    /\ ic_iallu' = After[ic_iallu]

\* Mutant: the failure of device_create is handled like that of class_create.
Undone_ForgetsClass ==
    [region |-> {}, class |-> {"region"}, device |-> {"region"},
     cdev |-> {"device", "class", "region"}]

\* What is undone when the call fails, and the module not loaded.
Undone ==
    [region |-> {}, class |-> {"region"}, device |-> {"class", "region"},
     cdev |-> {"device", "class", "region"}]

RegisterFails ==
    /\ ic_iallu \in Registrations
    /\ registered' = registered \ Undone[ic_iallu]
    /\ ic_iallu' = "unloaded"

-----------------------------------------------------------------------------
(* ic_iallu_exit *)

IcRmmod ==
    /\ ic_iallu = "loaded"
    /\ ic_iallu' = "unloading"
    /\ UNCHANGED registered

\* cdev_del, device_destroy, class_destroy, unregister_chrdev_region.
Unregister ==
    /\ ic_iallu = "unloading"
    /\ registered # {}
    /\ registered' = registered \
         {CHOOSE r \in registered : After[r] \notin registered}
    /\ UNCHANGED ic_iallu

\* The code of the module goes away.
IcGone ==
    /\ ic_iallu = "unloading"
    /\ registered = {}
    /\ ic_iallu' = "unloaded"
    /\ UNCHANGED registered

-----------------------------------------------------------------------------
\* The node is there from device_create on, but opening it fails without a cdev.
CanOpen == {"device", "cdev"} \subseteq registered

IcIalluTypeOK ==
    /\ ic_iallu \in Registrations \cup {"unloaded", "loaded", "unloading"}
    /\ registered \subseteq Registrations
=============================================================================
