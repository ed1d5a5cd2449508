--------------------------- MODULE MCRuntimeProfile ---------------------------
(* Small instances of RuntimeProfile for TLC.                              *)
EXTENDS RuntimeProfile, TLC

CONSTANTS d1, d2, p1, l1, l2, pol1, pol2, v1, v2   \* devices, ids, policies, versions

\* Device d1 is among the first half of a rollout, d2 is not.
MCBucket == [d \in Devices |-> IF d = d1 THEN 20 ELSE 70]

\* Two editions of one profile: for everybody and one version, and for half of
\* the devices.
Edition(ttl, biometric, policy, percentage, pinned) ==
  [id |-> p1, offline_cache_ttl_hours |-> ttl, biometric |-> biometric,
   default_policy |-> policy, rollout_percentage |-> percentage, version_pinned |-> pinned]

First  == Edition(24, FALSE, pol2, 100, v1)
Second == Edition(48, TRUE, NoPolicy, 50, NoVersion)
MCProfiles == {First, Stored(First), Second}

LaneOf(i, policy) == [id |-> i, deployment_profile_id |-> p1, default_policy_id |-> policy]
MCLanes == {LaneOf(l1, pol1), LaneOf(l2, pol2)}

\* Two complete assignments.
MCAnswers ==
  {[deployment_profile |-> First, lane |-> LaneOf(l1, pol1)],
   [deployment_profile |-> Second, lane |-> LaneOf(l2, pol2)]}
===============================================================================
