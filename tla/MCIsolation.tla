---------------------------- MODULE MCIsolation ----------------------------
(* The harness state and the mutation boundary for TLC, as the two parts of *)
(* one run: the values of a small project, one good request and the ways a  *)
(* plan or its observation can be wrong.                                    *)
EXTENDS Harness, MutationBoundary, TLC
CONSTANTS a1, a2
VARIABLE part
isolationVars == <<part, harnessVars, boundaryVars>>

(* A project, a run and what it asks for *)
MCActors == {a1, a2}
MCPrivateRanges == {[address |-> 8, bits |-> 1]}
CIDR(a, b) == [address |-> a, bits |-> b]
Keyed(id) == id @@ [key |-> CanonicalTargetKey(id)]
Identity(project, kind, scope, name) ==
    Keyed([project |-> project, service |-> "compute", kind |-> kind, scope |-> scope,
           parent |-> <<>>, name |-> name])
RunA == <<"a">>
RunAB == <<"a", "b">>
Lifetime(op, gen, from, to) ==
    [project |-> "p", run |-> RunA, plan |-> "plan", operation |-> op, generation |-> gen,
     createdAt |-> from, expiresAt |-> to, revocation |-> "WF-TEST-01"]
MCContracts == <<Lifetime("op1", 1, 1, 4), Lifetime("op2", 2, 3, 6)>>
MCIAPRange == CIDR(0, 2)
MCNetwork == Identity("p", "networks", "global", <<Generated, Test>>)
MCDesiredRule(c, p) ==
    [id |-> Identity("p", "firewalls", "global", RunFirewallRuleName(c.run, p)),
     network |-> MCNetwork, run |-> c.run, purpose |-> p, defaults |-> TRUE,
     description |-> RunFirewallDescription(c), lifetime |-> c,
     port |-> IF p = "internal" THEN 27017 ELSE 22,
     sourceCIDRs |-> IF p = "internal" THEN {} ELSE {CIDR(0, 2)},
     sourceTags |-> IF p = "internal" THEN {RunNodeTag(c)} ELSE {},
     targetTags |-> {RunNodeTag(c)}]
MCForeignRule(p) == [MCDesiredRule(MCContracts[1], p) EXCEPT !.defaults = FALSE]
MCGrant(action, granted) ==
    [identity |-> "operator", resource |-> ProjectAuthorizationResource("p"),
     permission |-> [service |-> "compute", action |-> action], granted |-> granted]
MCPolicy ==
    [project |-> "p", testCIDR |-> CIDR(12, 2), window |-> 2,
     limits |-> [vcpus |-> 2, memory |-> 2, disk |-> 2, instances |-> 1, lifetime |-> 3, cost |-> 1],
     operator |-> "operator", destructive |-> "destructive",
     permissions |-> {MCGrant("create", TRUE), MCGrant("updatePolicy", TRUE)},
     environments |-> {[name |-> "prod", class |-> "production"]},
     productionCIDRs |-> {CIDR(4, 2)}]
Lock(name, class, run, holder) ==
    [name |-> name, class |-> class, run |-> run, holder |-> holder,
     active |-> holder \in {"operator", "outsider"}]
MCCapacity ==
    LET c == [plan |-> "plan", lifetime |-> 3, cost |-> 1, disks |-> <<>>,
              instances |-> <<[id |-> Identity("p", "instances", "zone", RunResourcePrefix(RunA) \o <<"n">>),
                               run |-> RunA, vcpus |-> 2, memory |-> 1]>>]
    IN  c @@ [snapshot |-> CapacitySnapshotFingerprint(c)]
MCTarget(p) == [id |-> Identity("p", "firewalls", "global", RunFirewallRuleName(RunA, p)),
                labels |-> noLabels]
MCObservation(p, rule) ==
    [id |-> MCTarget(p).id, state |-> IF rule = Absent THEN "absent" ELSE "present", rule |-> rule]

(* The caller's input: derived from what is observed, or wrong in one way *)
MCRequests == {"good", "both", "unobserved", "overgrown", "misdescribed"}
MCObserved(wrong, w) ==
    LET contract == MCContracts[w.record]
        purposes == <<"iap-ssh", "internal">>
        chosen == IF wrong = "both" THEN purposes
                  ELSE SelectSeq(purposes, LAMBDA p : w.rules[p] = Absent)
        asked(p) == IF wrong = "misdescribed"
                       THEN [MCDesiredRule(contract, p) EXCEPT !.description =
                                RunFirewallDescription([contract EXCEPT !.generation = 3])]
                       ELSE MCDesiredRule(contract, p)
        rules == [i \in 1..2 |-> asked(purposes[i])]
    IN  [operation |-> [operation |-> contract.operation, step |-> "k", attempt |-> 1],
         run |-> RunA, testCIDR |-> CIDR(12, 2), productionCIDRs |-> <<CIDR(4, 2)>>,
         environments |-> <<[name |-> "prod", class |-> "production"]>>,
         principal |-> "operator",
         locks |-> <<Lock("disposable", "disposable", RunA, w.holder)>> \o
                   (IF wrong = "unobserved" THEN <<>>
                    ELSE <<Lock("prod", "production", <<>>, w.production)>>),
         capacity |-> MCCapacity, rules |-> rules,
         targets |-> [i \in DOMAIN chosen |-> MCTarget(chosen[i])],
         intents |-> [i \in DOMAIN chosen |->
             [action |-> "compute.firewalls.insert", role |-> "operator",
              target |-> MCTarget(chosen[i]), create |-> asked(chosen[i])]],
         observations |-> [i \in 1..2 |-> MCObservation(purposes[i], w.rules[purposes[i]])],
         permissions |->
             [expected |-> <<MCGrant("create", TRUE), MCGrant("updatePolicy", TRUE)>>,
              observed |-> IF wrong = "overgrown"
                              THEN <<MCGrant("create", TRUE)>>
                              ELSE <<MCGrant("create", TRUE), MCGrant("updatePolicy", w.granted)>>]]

\* Three parts, each a restriction of the modules' next-state relations: the
\* harness; the passage of every request, with no cleanup at work; the passage
\* of the good one among cleanups, with locks and permissions left alone.
\* A cleanup reads the record before it sees a rule, and may read it again; it
\* looks for more only after it has deleted what was cleared.
MCInit == /\ HarnessInit /\ BoundaryInit
          /\ part \in {"harness", "passage", "cleanup"}
          /\ part # "passage" => request = "good"
MCNext ==
    /\ UNCHANGED part
    /\ \/ /\ part = "harness" /\ HarnessNext
          /\ UNCHANGED <<world, request, passage, cleanup, changes>>
       \/ /\ part # "harness" /\ BoundaryNext
          /\ UNCHANGED <<sound, store, copy, evidence, lastDrift, refused>>
          /\ part = "passage" => UNCHANGED cleanup
          /\ part = "cleanup" => /\ UNCHANGED <<world.holder, world.production, world.granted>>
                                 /\ expected' = NoRecord => sighting' = NoSighting
                                 /\ clearing' # NoClearing => expected' = NoRecord
MCSpec == MCInit /\ [][MCNext]_isolationVars
MCSymmetry == Permutations(MCActors)
=============================================================================
