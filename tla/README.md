# Verification of configuration-gcp-ctp

This directory holds TLA+ models of the `ControlPlane` configuration for GCP in
`src/`, the TLC configurations that check them on small instances, and proofs
that TLAPS checks for every value of the constants.

    tlasany M.tla                          parse a module
    tlc -workers 2 -config X.cfg MCM       one of the runs listed below
    tlapm XProofs.tla                      check the proofs about X

`PROJECT.json` maps every definition to the lines of `src/` it models, lists the
hazards that the properties are aimed at, and for each property one mutation of
the code (operators marked `MUTANT` in the modules) that breaks it.

## 1. The system

A user creates a `ControlPlane` resource (an XR) on a management cluster.
Crossplane then runs the composition `src/apis/ctp/composition.yaml`: the Python
function in `src/functions/ctp/function`, then function-auto-ready. The
Python function is *pure*: `compose(req, rsp)` in `fn.py` maps the XR's
parameters, the composed resources as observed, and the list of all other
ControlPlanes to the set of resources that should exist and to a status. It
keeps no state of its own. All state is in the API server, and everything the
function remembers it remembers by reading back what an earlier reconcile
composed.

This is what makes the code hard to test. One call is a table lookup, and
`src/tests/test-controlplane` covers many of them. A *sequence* of calls is a
distributed feedback loop:

- Crossplane reads, runs the function, and writes. Users, providers and the
  reconciles of other XRs change the world between the read and the writes.
- It writes twice (composed resources, status). Either write may be lost.
- A resource that the function leaves out and that is observed is *deleted*. A
  gate that closes because a Release failed withdraws what stands behind it.
- Providers create, upgrade and delete in their own time, and a resource being
  deleted can still be observed as ready.

### Components

| Component | Code | State it lives on | Operations | What makes it correct |
|---|---|---|---|---|
| License guard | `prelude.py` 46-92, 185-197; `fn.py` 110-121, 204-212; `licensing.py`; `status.py` | every XR's `spec.parameters.license` and `status.controlplane.license`, composed `uxp-license-secret` | decide the owner, install, keep, withhold, record the claim | no two control planes on one license; a held license is never handed over or stripped; a free one is used |
| Pipeline | `fn.py` `compose`; `prelude.py` gates; `composition.yaml` | observed composed resources | gate each add-on, compute UXP's arguments, readiness | CRDs exist before objects of their kinds; gates neither wait for each other nor oscillate; a failure uninstalls nothing; Ready means complete |
| Cluster, UXP, cert-manager | `network.py`, `gke.py`, `uxp.py`, `certmanager.py` | composed resources | always composed | UXP's arguments name only what is installed |
| Gateway, Argo CD, k8gb | `gateway.py`, `argo.py`, `k8gb.py` | Releases, Objects, one reserved address | gated on Envoy Gateway, cert-manager, Argo CD, the address | shared gateway outlives one of its users |
| Backup, Workload Identity | `backup.py`, `workload_identity.py` | bucket, service account, `backup-restore` | gated on the UXP Release | restore happens once; identity comes back after a failed upgrade |
| VPA, Knative, runtime config | `vpa.py`, `knative.py`, `runtime_config.py` | Releases, `KnativeServing`, `UXPRuntimeConfig` | gated on license, cert-manager, operator | the loop add-on -> UXP arguments -> UXP Release -> gates comes to rest |
| Status | `status.py` | conditions, counters, claims | reads observed resources | what it reports is so |
| Usages | `usages.py` | `Usage` objects, `deletionTimestamp`s | guard the cluster, the network and the reserved address | what runs on something is gone before that is; the deletion ends |
| k8gb peers | `prelude.py` 243-301; `k8gb.py`; `status.py` 108-134 | k8gb settings of all XRs, composed Address and Release, `status.controlplane.k8gb` | derive the tag, list the peers, publish the name server | instances on one zone list each other and nobody else, and look each other up under the published names |
| Backup identity | `prelude.py` 104-115; `workload_identity.py` 41-71 | the Google service account, known by its name alone | derive the account id; create, take over, delete | GCP accepts the id; control planes keep their account |
| gRPC server | `main.py` | none | start | none (I/O) |
| XRD | `apis/ctp/definition.yaml` | none | schema | bounds the inputs |

Interactions: the license guard and the k8gb peers are the only places where
the function sees two XRs, through *required resources* (the list of all
ControlPlanes that Crossplane fetches for it). Two XRs also meet, unseen, in the
Google project: their backup accounts have derived names. Everything else is one
XR reading its own resources. Inside one XR the add-ons meet in shared units (Envoy Gateway for
k8gb and Argo CD, cert-manager for Argo CD and Knative), in UXP's arguments
(VPA and Knative change the UXP Release, which is an upgrade, and its state gates backup) and in the
license (which gates VPA and Knative, and which the guard may withhold).

Crossplane, the providers and the API server are not in `src/`. They are
modelled from how the code uses them, and marked external in `PROJECT.json`.

## 2. Modules

    LicenseGuard                                            LicenseGuardProofs
      LicenseRefinement  License_pair.cfg                   LicenseRefinementProofs
        INSTANCE LicenseRegistry WITH ...                   LicenseRegistryProofs
    Composition          Composition_{gateway,addons,licensed}.cfg
                         Finding_{restore,stale,ready}.cfg  CompositionProofs
    Teardown             Teardown.cfg, Finding_address.cfg  TeardownProofs
    K8gbPeers            Peers.cfg, Finding_tags.cfg        K8gbPeersProofs
    BackupIdentity       Backup.cfg                         BackupIdentityProofs

`MCX` extends X and defines the values of its instances (`MCLicenseGuard` extends
`LicenseRefinement`, so that one run checks the guard and what it implements);
`XProofs` extends X.

The models cut the system along its interactions. `LicenseGuard`, `K8gbPeers`
and `BackupIdentity` have many XRs and of each only what the others can see or
touch. `Composition` has one XR with everything, and of the other XRs only that
one of them may take or give back the license (the feature `licenseConflict`,
toggled by an edit). `Teardown` has one XR, and of its resources those between
which a Usage stands, but follows their deletion step by step, where
`Composition` lets deletions finish in any order. `LicenseRegistry` is what
`LicenseGuard` promises.

### LicenseGuard

One reconcile of an XR is the steps

| Action | Code | What it does |
|---|---|---|
| `Observe(x)` | Crossplane | reads XR x and its composed resources into `seen[x]` |
| `RunFunction(x)` | `check_license_conflict`, `fn.py` 204-212 | reads the *other* XRs as they are now, decides into `plan[x]` |
| `Apply(x)` | `licensing.py` | installs the planned Secret, or starts deleting the one no longer desired |
| `Record(x)` | `status.py` | writes the claim and the `LicenseConflict` condition |
| `Abort(x)` | an error, a timeout, a restart | forgets the reconcile wherever it was |

`Apply` and `Record` are taken in either order, since nothing in `src/` fixes the order
of Crossplane's two writes and no property may depend on it. Between any
two of these steps any XR may move. The world around it: users `Create`,
`Repoint` and `Delete` XRs; a terminating XR is `Gone` in the end; a restore
recreates an XR without its status and with a new timestamp
(`RestoreWithoutStatus`, the case the comments of `check_license_conflict`
speak of); the provider ends a deletion it was told to do (`Uninstall`).
Time passes when the API server reads its clock for a timestamp (`Stamp`); it makes no
difference before.

`Init` is an upgrade from a release that had no guard: XRs exist, with or
without their license installed, perhaps two on one Secret, and none has a
claim.

`ClaimBefore` is `claim_order` as a relation. The code's Python tuples
`(not holds, no timestamp, timestamp, identity)` are compared
lexicographically; the XRs are numbered in the order of `(namespace, name)`, so
`c < d` is the last component. `Holds(x, c)` takes the XR itself from what the
reconcile observed and the others as they are now, which is what the function
is given. `LicenseConflict` is `min(ahead, key=claim_order)`.

Abstractions: `uxp-license-secret` and the `License` object that names it are
composed together and are one thing here. A stale list of peers needs no action
of its own: a reconcile that ran on an older list is one whose `RunFunction`
came earlier. A missing creationTimestamp (sorted last in the code) does not
occur on a stored object. Crossplane calls the function a first time without
the list, to learn that it wants one, and discards that answer.

`raced` is a history variable: the Secrets that were granted to one XR while
another live XR had them *off the record* (installed, or decided upon, with no
claim in its status yet).

### Composition

A *unit* is a group of composed resources that the code composes under one
condition, named after one of them. The operators `...Desired` are the `add_*`
functions, `Desired` is the body of `compose`, in its order, gates included.
The names of the gates (`GatewayReady`, `KnativeDepsReady`,
`KnativeFullyReady`, `FeaturesLicensed`) are the local variables of `compose`.

| Action | Models |
|---|---|
| `RunFunction` | Crossplane reads the XR and its resources; `compose`; function-auto-ready |
| `Apply` | Crossplane creates what is missing, deletes what is observed and not desired, writes UXP's arguments, the capabilities of the runtime configuration, and the status; new arguments are an upgrade of UXP, which is not deployed until it is through |
| `ApplyPartly` | the same with any subset of the writes, and no status |
| `Provision(u)` | a provider brings u up, once what it needs in the cluster is there; also after a failure |
| `Fail(u)` | a Helm upgrade fails, or the license is no longer accepted |
| `Remove(u)` | a provider finishes a deletion |
| `Serve`, `StopServing` | the KnativeServing inside `knative-serving-cr` becomes Ready, or degrades |
| `Edit(f)` | a user turns a feature on or off; for `licenseConflict`, another XR takes or returns the Secret |

`Deployed(r)` is `is_release_deployed`: it goes by `atProvider.state`, so it
holds of a Release that is being deleted too.

`args` and `caps` are what the composed UXP Release and runtime configuration hold
(`build_manager_args`, the list in `add_runtime_config`), computed in one step and
written in a later one. They close the loop of the system: an add-on that comes up
changes UXP's arguments, that upgrades UXP, and until the upgrade is through
UXP does not count as deployed, so the backup identity is withdrawn. (Whether a
reconcile happens to look in between is left open.)

Knative has two conditions. `Up("knative-serving-cr")` is the Ready of the Object:
its manifest is applied. That is what function-auto-ready and `status.py` see, for
`knative.py` 108-142 sets no readiness policy. `serving` is the Ready *inside* the
manifest, which `is_knative_serving_ready` reads and which opens the gate on the argument
and the capability. The first comes before the second and outlives it.

`StaleReady` is the defect of provider-helm v1.2.2 that `composition.yaml` describes: a
Release's Ready condition stays False although it is deployed. The code answers with
an annotation, `crossplane.io/ready`, on the composed Releases. It is not
in the model, since it has no effect: the function returns no readiness for any resource, and
function-auto-ready goes by the observed conditions (finding `stale_ready`).

The order in which deletions finish is left open: `usages.py` only ever removes
orders.

`Together` says which features an instance may combine: whatever is on at a time is
part of one of its sets, since add-ons that share no unit do not meet.

`deployed` (Releases that were up once; Helm leaves CRDs behind) and `restores`
(how often `backup-restore` was created) are history variables.

### LicenseRegistry and LicenseRefinement

`LicenseRegistry` knows no reconciles, claims, timestamps or Crossplane: each
control plane *uses* some licenses and is on *record* for at most one of them.
`Take(x, s)`: x begins to use s, if nobody else is on record for it; if somebody
uses it all the same, s is `contested` from then on. `Settle(x)`: x lets go of
licenses and changes its record to one it uses. This is all a customer
can count on, and `OneUser` says what it amounts to.

`LicenseRefinement` maps the guard onto it: `uses` is what a live XR has
installed, is about to install, or has read as installed (`Holding`); `record` is
the claim in its status; `contested` is `raced`. An XR that is being deleted
uses nothing, as for `check_license_conflict`. `RunFunction` is a `Take` or a
`Settle`, everything else a `Settle` or a stutter.

### Teardown

A deletion is refused by the API server's Usage webhook while an *active* Usage
is on the resource. Usages are composed resources themselves: they come into
being, are activated, and are deleted like everything else, in no fixed order.

| Action | Models |
|---|---|
| `RunFunction`, `Apply` | a reconcile of the live XR: `add_usage_resources` and the units, then creations and deletions |
| `ApplyRefused` | a refused deletion ends the reconcile, before it creates anything |
| `ApplyPartly` | some creations fail, or Crossplane restarts |
| `Edit`, `Delete` | users turn k8gb or Argo CD on or off, and delete the XR |
| `Collect(u)` | the garbage collector deletes what the deleted XR owned, and retries what is refused |
| `Provision(u)`, `FinishDelete(u)` | providers; what runs in the cluster needs it, the cluster the network, an address is released only when no load balancer serves on it |
| `Activate(g)`, `FinishUsage(g)` | the Usage controller; a Usage being deleted waits until its user is gone, then repeats the deletion it refused (`replayDeletion`) |

`Usages` are pairs `[of, by]`, and `BaseUsages`, `GatewayUsages`, `K8gbUsages`,
`ArgocdUsages` are the sections of `usages.py`. A resource that never made
contact with the cluster (`pending`) does not hold up its own deletion. `hasty` is a
history variable: an edit or a deletion came while a reconcile was under way or
before every Usage was in force. Nothing in the code protects anything then, and
the properties speak of the other cases. `Scope` picks the resources an instance
looks at; the proofs are for every scope.

### K8gbPeers

The same shape of reconcile as in `LicenseGuard`: `Observe(x)` reads the XR and
its Address, `RunFunction(x)` fetches all ControlPlanes and derives tag, peers
and name, `Apply(x)` and `Record(x)` write in either order, `Abort(x)` loses it.
The world: `Create`, `Change` (on, off, another zone, another tag), `Delete`,
`Gone`, and the providers' `Reserve`, `ReleaseGone` and `AddressGone`. `PeersOf`, `ExtTags`,
`Tag` and `NsName` are the functions of `prelude.py` and `status.py`;
`K8gbNsName` is how k8gb itself computes the name it looks up, from the values it was given.

Tags, ids, locations and DNS names are sequences over the constant `Word`, a
word being what stands between dashes, or between dots, so that two strings
are equal in the model exactly when they are in the code, dashes
included. Ids and locations of an XR do not change. `leaving` is what of the Release
and the Address is being deleted: both with k8gb off, and the Release alone when k8gb
is on and no reserved Address was observed, which is so after off and on again.
`ReleaseGone` and `AddressGone` end the two deletions; that the Usages hold the Address until
the Release is gone is taken from `Teardown`. `informed` and
`current` are history variables: the XRs whose running reconcile, and whose
Release, is from after the last change of anybody's settings.

### BackupIdentity

`Sanitize`, `LStrip`, `RStrip`, `LetterFirst`, `Cut` and their composition
`AccountId` are `backup_sa_account_id` on sequences of characters. Around them is
the life of the account: composed with backup on and UXP deployed, withdrawn
otherwise, created *or taken over* by the provider, since the external name says
which account it is, and deleted by it whoever else relies on it. The reconcile
is not split here: nothing it reads of another XR matters. The room and
the bounds of GCP are constants, scaled down for TLC (2 characters, a suffix of
2, accounts of 3 to 4), and arbitrary in the proofs as long as
`Room + Len(Suffix) = MaxLen` and `MinLen <= 1 + Len(Suffix)`, which 23 + 7 = 30
and 6 <= 8 satisfy. The thirteen ids of the instance are one or two for every case of
the function: clean, upper case, replaced, stripped on either side or away
altogether, given a letter, cut, cut before a dash.

## 3. Runs

Each run asks a question of its own. Each property is aimed at hazards listed
in `PROJECT.json`, and each is broken by a plausible bug (the mutants).

| Run | Instance | Properties | What it shows |
|---|---|---|---|
| `license_pair` | 2 XRs, 2 Secrets, 2 edits, 1 fault, 2 clock values; fairness | `TypeOK`, `NoUnrecordedSharing`, `NeverHandsOverHeld`, `LicenseKept`, `RestIsSettled`, `Settles`, `ImplementsRegistry` | two live XRs share a license only if one was granted while the other had it off the record; a Secret claimed in a live XR's status is never newly granted; the deletion of an installed license starts only if none was asked for, and it is replaced only by the one asked for, without a conflict; when the world comes to rest, claims equal installed licenses, at most one XR asking for a Secret is free of the condition, the condition names the holder, and a Secret asked for is held by somebody; every step is one of the registry |
| `composition_gateway` | k8gb, Argo CD; 1 edit, 1 fault | `TypeOK`, `CRDsBeforeObjects`, `FailureUninstallsNothing`, `XrReadyIsComplete`, `RestIsConverged`, `ConvergedIsConfirmed` | gates hold between read and write, through failed upgrades, partial applies, and edits in the middle of a deletion; no gate waits, through other resources, for what it gates, and nothing is composed only until it is there |
| `composition_addons` | Argo CD, or backup with installFrom; 1 edit, 1 fault; fairness | `CRDsBeforeObjects`, `XrReadyIsComplete`, `Converges` | the chain cert-manager, gateway, Argo CD always comes up, what a failed UXP upgrade takes away comes back, and the XR is not Ready without it |
| `composition_licensed` | VPA, license and conflict; Knative and license; VPA and Knative; VPA and backup; 1 edit, 1 fault; fairness | `CapabilitiesBacked`, `FailureUninstallsNothing`, `XrReadyIsComplete`, `RestIsReady`, `Converges`, `ReadyConditionsAgree` | the loop through UXP's arguments and upgrades ends, with or without a license, with Knative serving late or no more, in a control plane that is Ready; a lapsed license takes VPA and Knative and nothing else; the two Ready conditions of the XR come to agree |
| `teardown` | k8gb: network, cluster, address, Release; 1 edit, 1 fault; fairness | `TypeOK`, `ClusterOutlivesAddOns`, `NetworkOutlivesCluster`, `AddressReleasedLast`, `NeverStuck`, `TeardownEnds` | turning k8gb off or deleting the XR respects the whole chain of Usages, the Usages do not wait for each other, and refused deletions are repeated |
| `peers` | 2 XRs on one zone or two, 2 edits, 1 fault; fairness | `TypeOK`, `PeersKnown`, `PeersReal`, `NamesApart`, `RestIsDelegated`, `PeersSettle` | up-to-date instances list each other and nobody else, and no two publish one name, in every interleaving; the lists are right in the end, and every peer is looked up under the name it publishes |
| `backup` | 2 XRs, any two of 13 ids, 2 edits, 1 fault; fairness | `TypeOK`, `AccountValid`, `IdentityKept`, `RestIsExact`, `IdentitiesSettle` | GCP accepts every account id; clean ids keep their account; a shared one that was deleted comes back; none is left behind |
| `restore_once` | backup with installFrom, no edit, 1 fault | `RestoredOnce` violated | see findings |
| `stale_ready` | no add-on; stale Ready; fairness | `XrBecomesReady` violated | see findings |
| `reported_ready` | Argo CD, no edit, no fault | `ReportedReadyIsComplete` violated | see findings |
| `address_toggle` | k8gb; 2 edits, no fault | `AddressReleasedLast` violated | see findings |
| `tags_unique` | 2 XRs, ids and locations with dashes | `NamesApart` violated | see findings |

Some remarks on what the properties do *not* say. `NoUnrecordedSharing` admits
sharing through a race, because the code does: two XRs that run the function at
the same moment both see the other without a claim, and nothing in the API
locks the Secret. What the property says is that this is the *only* way, and
that the record in the status is never bypassed. Nor does the code undo such a
race: an installed license is kept on conflict, so both go on running on it.
`Settles` says that it is *reported*: all but one of those that ask for the Secret
end up with the `LicenseConflict` condition, naming a live XR that claims it. It
also admits a rest state that a user would not like: two holders that each ask for
the other's Secret keep what they have for ever, each in conflict with the
other.

Six of the invariants speak of *rest*: `RestIsSettled`, `RestIsConverged`,
`RestIsReady`, `NeverStuck`, `RestIsDelegated` and `RestIsExact`. `AtRest` (`Idle` in
`Teardown`) says that no reconcile, provider or controller has anything left to do
that would change something, edits and faults aside; the invariants say that
nothing is wrong then. They are the half of the liveness properties that the
function answers for: it decides, from one snapshot at a time, what everybody
should do, and a wrong answer that every snapshot confirms stays for ever. `ConvergedIsConfirmed` is the converse for one
control plane: a reconcile does not undo what is right. The other half, that rest
is reached, is up to the fairness of Crossplane and the providers, and to the liveness properties `Settles`, `Converges`, `TeardownEnds`,
`PeersSettle` and `IdentitiesSettle`. Being invariants, these
are proved for every value of the constants (section 4).

`XrReadyIsComplete` and `Converged` speak of what an XR is *owed*. One whose license another
XR's claim withholds is not owed the license, VPA and Knative (`Effective`), and it is Ready
without them; `LicenseConflict` is where it says so. And Ready does not say that
Knative serves, nor that the runtime configuration which waits for it is there; the comment of
the e2e test, which lists what Ready implies, does not name Knative either.
`FailureUninstallsNothing` is about edits not made. What it lists (`Kept`) no failure withdraws;
VPA and the Knative operator are in the list for an XR without a license, since with one a lapse
does withdraw them. Whatever stands behind a gate is not in it: the GatewayClass, the Argo CD
Objects, `knative-serving-cr`, backup identity and restore, and the runtime configuration do go when
their gate closes.

`PeersKnown` and `PeersReal` speak of instances whose reconcile *began* after
the last change of anybody's settings; before that a list may be old.
`PeersSettle` says that it does not stay so, and compares names only among peers
with one `parentZone`, since nothing makes two XRs on one `dnsZone` choose the same.
`IdentityKept` is for ids that need no sanitising and are not cut: with other
ids two control planes can share an account, and a deletion takes it from both.
`TeardownEnds` leaves open whether cert-manager's Release is left over: it has
no Usage, so the cluster may go first, and its uninstallation then never
finishes. The add-ons that `Teardown` leaves out (backup, license, VPA, Knative)
are in the same position.

### Bounds

`MaxEdits`, `MaxFaults`, `MaxTime` bound what users do, what goes wrong, and
the clock; nothing else is bounded. (`restores` stops counting at 2, which is
where `RestoredOnce` is decided.) They are guards of the
environment's actions: a reconcile is never stopped by a bound. They are large
enough for the hazards to happen, which the mutants confirm: a race between two
XRs needs two re-pointings, or a creation and an upgrade; a lost write needs
one fault; a stale timestamp needs a restore and a tie or a later timestamp; turning an
add-on on or off needs one edit on top of a free initial choice of features,
and a failure in the middle of it one fault. Off and on again takes two, which `peers`
and `address_toggle` have; the runs of `Composition` have one, and its theorems any number. Add-ons are checked
together where they share a unit or a gate. In `Teardown`, `Scope` keeps to the longest chain
of Usages: the network waits for the cluster, the cluster for the k8gb Release, and
the address for the Release too. UXP's
Release, the TCP Service, Argo CD and the gateway are `by` in Usages of the same
shape; the proofs cover them, for every scope. Every run has two XRs at most: what
takes three (two XRs ahead of a third, a list that loses one peer and keeps another)
is covered by the proofs, as every safety property above
is proved without any bound (`AddressReleasedLast` but for the number
of edits, see below). So is what `Together` leaves open: that add-ons which no
run combines do not wait for one another.

Deadlock is checked in the runs of `Composition`, where a reconcile can always
be started. It is not in the others: when every XR has been deleted, or nothing is
left to provision, and the edits are used up, nothing is left to happen.

### Fairness

`LicenseGuard!Fairness`: weak fairness of every XR's reconcile (Crossplane
reconciles on watches and on its poll interval), of the provider's deletions, and
of the end of a teardown. Users and faults have none. The fairness is of
`Reconcile(x)` as a whole, so nothing is assumed of when an XR is
reconciled relative to another. `Composition!Fairness`: weak fairness of the
reconcile, of its apply, and of each provider's work on each unit (providers
retry with back-off, for ever), and of the Knative operator (`Serve`). `ApplyPartly`,
`Fail`, `StopServing` and `Edit` have none; they end because they are bounded, so the liveness properties say: once users and
failures are quiet, the system gets there.

`Teardown!Fairness`: of the reconcile and its apply (refused or not), of the garbage
collector, the providers and the Usage controller on each object; all of them
retry. `K8gbPeers!Fairness`: of each XR's reconcile as a whole, its providers,
and the end of its deletion; Crossplane's poll interval is all that tells an XR of a change
in another. `BackupIdentity!Fairness`: of the reconcile, of UXP's Release coming
up, and of the provider, which also notices an account that vanished.

## 4. Proofs

All proofs assume only what the modules assume of their constants
(`ConstantsAssumption`, `CompositionAssumption`,
`TeardownAssumption`, `PeersAssumption`, `BackupAssumption`): any set of XRs (for
the guard numbered by naturals), any Secrets, features, settings, ids and
bounds. The sets need not be finite. Four theorems name a further assumption
(`AddressIsLast`, and three about peers), explained below.

`LicenseGuardProofs`

- `ClaimBeforeAsymmetric`, `ClaimBeforeTotal`, `ClaimBeforeTransitive`:
  `claim_order` is a strict total order on XRs at every moment, however the
  claims and timestamps stand. `AheadHasFirst`: so Python's `min` is defined
  whenever somebody is ahead. It goes through three nested minima (holders, age,
  number), each from `NatSetHasLeast`. With it, `ConflictNamesAhead`: a
  conflict names a live XR that really is ahead.
- `TypeCorrect` rests on it: a `CHOOSE` is only known to be an XR if
  there is one to choose.
- `SharingIsRecordedRace` (`Spec => []NoUnrecordedSharing`). `NoUnrecordedSharing`
  is not inductive: an XR created under a name used before must not inherit
  anything. `SharingInv` adds `AbsentIsClean`. The argument: the set
  of Secrets an XR is `Holding` grows only when the function grants one
  (`HoldingGrows`: installing, recording, observing and aborting only move a
  Secret from one place to another), and a grant is only made when no
  live XR claims the Secret (`GrantedMeansUnclaimed`), so another holder at that
  moment is off the record, which is what `raced` notes.
- `HeldIsNeverHandedOver` follows from the same lemma as an action property.
- `LiveLicenseIsKept` needs `PlanFollowsView`: what a running reconcile saw
  installed is still installed, unless its deletion has finished, and its plan is
  either what was asked for or what was seen.
- `RestingLicensesAreSettled` (`Spec => []RestIsSettled`). The XRs decide one at
  a time, each ranking the others by claims, timestamps and names it read; the
  theorem says that decisions which each confirm what is there cannot together
  be wrong. `RestingXR`: at rest what an XR read of itself is what the
  others see of it, so all that ask for one Secret rank by one order
  (`SameOrderAtRest`). `OwnerHoldsAtRest`: the XR that a conflict names, the first in
  that order, claims the Secret; one that only asked for it would itself see another
  ahead, and so would the XR that was told of it.
  `NoConflictIsInstalled`: an XR without conflict runs on what it asks for.
  `OneWithoutConflict`: of two that ask for a Secret the one behind sees the other
  ahead, so one of them is in conflict.
  It is the theorem that needs `claim_order` to be total:
  without the name as tie-break two XRs of one age both keep out of conflict
  (the mutant `ClaimBefore_NoTieBreak`).

`CompositionProofs`

- `TypeCorrect`, with `ApplyApplies` reducing both kinds of apply to one.
- `CRDsComeFirst` and `CapabilitiesAreBacked` from `EvidenceInv`. Neither is
  inductive: the plan of a running reconcile outlives the state it was made
  from. `EvidenceInv` says of the plan too that it rests on Releases that were
  deployed, and that a Release that is up is in `deployed`.
- `ReadyXrIsComplete`: `XrReadyIsComplete` follows from the types alone, but not
  by a definition: `XrReady` speaks of what is desired now, and each
  gated part must be shown to be desired as soon as everything else
  that is desired is ready. The one gate that no desired resource's Ready opens is
  Knative's own, hence the exception in the property.
- `FailuresUninstallNothing` from `NoEditInv`: with no edit, only what the parameters can ask for is present,
  no plan withdraws any of it, and the k8gb Release stands on an address that
  is up. `Kept` depends on the parameters; `NoEditKeeps` says that it stays.
- `NoCircleOfGates` (`Spec => []RestIsConverged`), for every set of features at
  once. `UpAtRest`: whatever has what it needs is up, since its provider has nothing
  to do. `AllUpAtRest` follows `Needs` from the cluster up: an object is desired only
  when the gate on the Release it needs is open, so at rest what is present is up.
  `UpIsComplete`: then every gate is open, hence everything asked for is there.
  `AskedForAtRest`: and nothing else is, in particular neither VPA, Knative nor the
  runtime configuration, which the license does not gate, where the license
  is withheld. `ArgsAtRest` is the same of UXP's arguments, the capabilities, and Knative,
  which serves at rest. The types are all
  the history it needs: no sequence of edits and failures can leave something behind.
- `ConvergedStays` (`Spec => []ConvergedIsConfirmed`) is the converse: what compose
  returns for a converged control plane is what is there. `ConvergedGates`: there
  every gate stands exactly as the parameters want it to, whatever it was that
  opened it; `ConvergedConfirmed` goes through the `...Desired` of every add-on in both
  directions. Together the two say that the loop through the gates has the
  converged states for fixed points and no others: it can neither stop short of what is
  asked for nor undo it.
- `RestingXrIsReady` from `AllUpAtRest`: Ready in both conditions if provider-helm
  reports its Releases Ready, in neither if it does not, since UXP's Release is always desired.

`LicenseRegistryProofs`: `RegistryIsExclusive`. Types and `OneUser` are inductive
together: a record is of a license in use, and a `Take` that finds another user
makes the license contested.

`LicenseRefinementProofs`: `GuardImplementsRegistry`
(`Spec => ImplementsRegistry`, that is `LicenseRegistry`'s `Spec` under the
mapping). `InitRefines` and, for each action, a step or a stutter: `RunFunctionRefines`
is a `Take` when the XR is granted a Secret it did not hold
(`GrantedMeansUnclaimed` gives the guard), otherwise a `Settle`;
`OtherStepsRefine` reduces the rest to `HoldingGrows`. That a record is of a
license in use (`RecordIsUsed`) comes from the types of the guard.

`TeardownProofs`

- `UsageTable` lists the Usages with the cluster, the network and the address as
  `of`, from the sections of `usages.py`.
- `ClusterIsLast`, `NetworkIsLast` from `OrderInv`. While the XR lives, cluster and
  network are not being deleted and their active Usages are not let go
  unless the user is gone (`LiveInv`); once it is deleted, whatever is up has its
  active Usage on what it runs on, or the deletion was hasty (`DeletedInv`).
- `AddressIsLast`, for `MaxEdits <= 1`. The address is guarded by two Usages
  that are withdrawn together with it; `AddressInv` follows one withdrawal
  from the edit to the end. With two edits the statement is false
  (`address_toggle`), so the assumption is not an artefact.
- `TeardownNeverStuck` (`Spec => []NeverStuck`): the deletion has no deadlock, for any
  add-ons and scope. `SupportInv` adds to `OrderInv` that what is up and guarded
  has a cluster in scope that made contact. `IdleFacts`: where nobody can act, the
  user of every Usage that is left is left too, and what no Usage guards cannot
  finish its deletion. `IdleIsTornDown` follows these waits from the users of the
  Usages down: what runs in the cluster is guarded by nothing and the cluster is still
  there, so it is gone; then so are the Usages on the address and the cluster, hence
  both; then those on the network. A Usage the wrong way round breaks it
  (`BaseUsages_Loop`).

`K8gbPeersProofs`

- `TypeCorrect`; and `AlwaysUpToDate`: the plan of an informed reconcile, and
  the Release of a current XR, hold exactly what would be derived now
  (`Expected`). Each edit empties both histories, which is why it is inductive; deletions
  need care, since a terminating XR counts until it is gone.
- `PeersAreReal` follows for any ids and tags; `PeersKnowEachOther` needs
  `IdsApart` and `TagsApartOnZone`: XRs have different ids, and the tags that the
  users of two XRs may choose on one zone differ. Both are necessary: the
  code takes peers with one id for one XR, and drops a tag that equals its own
  (`tags_unique` shows how two come to have one). Both speak of what each XR's
  own users may choose (`Offer`), since a tag that anybody may choose is nobody's own.
- `OwnSettings` is what makes use of this: settings, plan, Release and
  published name of an XR, however old, were all derived from settings offered to that
  XR. It is inductive for any ids and tags.
- `NamesStayApart` (`Spec => []NamesApart`), for `TagsApart` and `ZonesAlike`.
  A name holds its parent zone, and, if zones under one parent have as many labels
  left, it holds the tag (`NameHasTag`, by `ConcatSplits`). Without `ZonesAlike` it is
  false: tag `eu` on `west.gslb.example.com` and tag `eu-west` on `gslb.example.com`
  make one name.
- `RestingPeersAreDelegated` (`Spec => []RestIsDelegated`), for `IdsApart` and
  `TagsApartOnZone`. `ProducerAtRest`: the Release and the published name of a k8gb at
  rest are those its settings give now, though no reconcile was told of the others'
  changes. `ListAtRest`: its list is exactly the others on its zone. The name that k8gb
  computes for each (`K8gbNsName`) is the one `status.py` publishes (`NamesAgree`), also
  for a zone that does not end in its parent; `SuffixIsConcat`, `StrictSuffixIsShorter`
  and `PrefixType` are what `str.endswith` and the slice after it come down to.

The instance of `peers` satisfies `IdsApart`, `TagsApart` and `ZonesAlike`; that of
`tags_unique` does not satisfy `TagsApart`, which is the finding.

`BackupIdentityProofs`

- `RStripCuts`, `LStripCuts`: a strip removes the dashes at one end and nothing
  else, from the least natural with the property. `BaseIsValid`,
  `EveryAccountIsValid`: each step of `AccountId` keeps what the steps before it
  achieved (the letter put first survives the cut, the second strip leaves at least that letter).
  `AccountsAreValid` is for ids of any length over any characters.
- `CleanIdsKeepApart`: on clean ids `AccountId` only appends, so it is injective
  there; `IdentitiesAreKept` uses it to show that no deletion of another XR
  removes an account.
- `RestingAccountsAreExact` (`Spec => []RestIsExact`) is for any ids: control planes that
  share an account may take it from one another, but where no provider has anything
  left to do it is there for whoever wants it, and none is left over.

Model-checked only: the liveness properties `Settles`,
`Converges`, `ReadyConditionsAgree`, `TeardownEnds`,
`PeersSettle` and `IdentitiesSettle`, which hold under fairness and are out of the
prover's reach. What is proved of them is that no state of rest is wrong; that
rest is reached is what TLC checks.

## 5. Findings

1. *A restore is repeated* (`restore_once`). `definition.yaml` 110-111 says that
   `installFrom` is "Applied once at bootstrap - ignored on subsequent
   reconciles". `fn.py` 199-202 composes `backup-restore` whenever UXP is
   deployed, and leaves it out when it is not: a failed UXP upgrade deletes the
   Restore, and its recovery creates it again.
2. *The readiness annotation decides nothing* (`stale_ready`). `composition.yaml` 17-23 says
   that the function's readiness annotations get "translated into a ReadyTrue decision
   in the gRPC response", which function-auto-ready respects, "sidestepping the bug" of
   provider-helm. `uxp.py` 18-19 and its siblings write `crossplane.io/ready` into the
   metadata of the composed Release; nothing sets `rsp.desired.resources[...].ready`. With the
   defect, an XR without any add-on never becomes Ready. (`vpa.py` takes
   `vpa_ready` and does not even write the annotation.)
3. *The Ready condition in the status runs ahead* (`reported_ready`). `status.py` 138
   counts observed resources, so the reconcile that first sees the last gate open
   reports "Control plane is ready" together with resources that do not exist yet. The XR's own
   condition, from function-auto-ready, does not have this (`XrReadyIsComplete`).

4. *k8gb on a dying address* (`address_toggle`). k8gb is turned off; the Release
   goes, then the deletion of the address is accepted. Turned on again now, `k8gb.py` 77
   still reads an address from the Address being deleted and composes the Release
   on it. `usages.py` 195: "must be released only after the k8gb Release (and its
   LB) is gone". The new Usage comes after the accepted deletion and cannot stop it.
5. *Geo tags are not unique per control plane* (`tags_unique`). The default
   `gcp-<location>-<id>` is not injective: region `us-central1` with id `a-b` and zone
   `us-central1-a` (`definition.yaml` 32 allows both) with id `b` have one tag, and
   the two control planes publish one name server. So do two with one id and one
   location in two namespaces. `prelude.py` 245 and `definition.yaml` 201 say
   "unique per control plane".

Seen while reading, and not made a run: peers with one id in two namespaces never list
each other, since `prelude.py` 262 takes an XR with its own id for itself (the
license guard compares namespace and name), where `README.md` 232-234 promises
geo tags "across namespaces"; `status.controlplane.created`
is read from the desired XR, which has no timestamp yet (`status.py` 19-20), so it
is always empty where `definition.yaml` 262 promises the creation time;
`README.md` 71-74 says only the storage and cloudplatform families are used,
`k8gb.py` also composes a compute Address; `definition.yaml` 32 allows a zone as
location, which `network.py` 30 and `k8gb.py` 62 pass on as a region;
`backup.enabled` without a location yields an empty bucket name.

## 6. Not modelled, and why

- The contents of manifests (chart values, RBAC rules, Helm options), except the
  geo tags: no gate and no other control plane reads them.
- The gRPC server (`main.py`): I/O.
- The XRD's schema: declarative. It bounds the inputs that `Init` and the edits
  enumerate.
- The counters in the status, `created`, and the fields that copy a parameter or
  an observed value: nothing reads them, and a property of them would repeat
  their definition. `parse_bucket_location` returns its argument up to white space.
- `last-reconcile-date`, which `stamp` writes on every composed resource: every
  reconcile changes every resource, so whether the system is ever *quiet* depends
  on which changes Crossplane reacts to. The code claims nothing about it.
- A stale cache of an XR's *own* composed resources in Crossplane.
- What else upgrades UXP: a change of `uxp.version`. It is like a change of its arguments.
- The bindings of a shared backup account that is deleted and created again: they are
  not tracked apart from the account.
- The loss of a reserved address after it was granted, other than by deletion:
  it would take the k8gb Release out of the desired set. GCP does not do this to
  an address in use.
- Edits of `id` and `location` after creation: both are part of the names of composed
  resources, and the code treats them as fixed.
- Deletion of the parts that no Usage speaks of (backup, license, VPA, Knative).
  Nothing orders it, and nothing in the repository says that it should be.
- Peers in other clouds, which the fleet layer injects outside this repository.

## 7. What could be added

The plan this project followed is done: guard, pipeline, teardown, registry,
peers, backup identity. Of what is left, two pieces might be worth their while:
`Composition` and `Teardown` in one module, if resources other than those of
k8gb and Argo CD come under Usages; and a model of the fleet layer
(FleetGslb), which consumes `status.controlplane.k8gb`, should its code come to
this repository.
