-------------------------- MODULE MCBoundedBacklog --------------------------
(***************************************************************************)
(* Two blocks of an account, in different buckets.                         *)
(***************************************************************************)
EXTENDS BoundedBacklog

CONSTANTS A

MCHashes == <<1, 2>>
MCAccounts == <<A>>
MCAccount == <<A, A>>
MCHeight == <<1, 2>>
MCDependencies == <<{}, {1}>>
MCBuckets == <<1, 2>>
MCBucket == <<1, 2>>
MCTimestamp == <<1, 2>>
=============================================================================
