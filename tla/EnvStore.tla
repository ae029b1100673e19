------------------------------ MODULE EnvStore ------------------------------
(***************************************************************************)
(* What saveenv promises with a redundant copy (README,                    *)
(* CONFIG_ENV_OFFSET_REDUND): the stored environment is one register that  *)
(* is replaced atomically, and a power failure at any moment leaves it     *)
(* whole.  EnvNand, which erases and programs flash blocks one by one,     *)
(* implements this specification.                                          *)
(***************************************************************************)
CONSTANTS Contents, Default

VARIABLES
    store,      \* the environment that the next boot will find
    ram,        \* the environment in use
    on          \* the board is powered

storeVars == <<store, ram, on>>

StoreInit == store = Default /\ ram = Default /\ on = FALSE

Boot == ~on /\ on' = TRUE /\ ram' = store /\ UNCHANGED store

Edit == on /\ ram' \in Contents /\ UNCHANGED <<store, on>>

Save == on /\ store' = ram /\ UNCHANGED <<ram, on>>

LosePower == on /\ on' = FALSE /\ UNCHANGED <<store, ram>>

StoreNext == Boot \/ Edit \/ Save \/ LosePower

StoreSpec == StoreInit /\ [][StoreNext]_storeVars

=============================================================================
