---------------------------- MODULE MCHostCaches ----------------------------
(* Two roots: the process's own, in the situations the detection tells apart, and one   *)
(* mounted from a plain KVM host.                                                       *)
EXTENDS HostCaches

Own == { {}, {"dockerenv", "kvm"}, {"cgroup-docker", "coreos"}, 
         {"environ-lxc", "cgroup-rkt"}, {"xen", "control_d", "cgroup-lxc"} }

MCWorlds == {[r \in Roots |-> IF r = Default THEN own ELSE {"kvm"}] : own \in Own}
                \cup {[r \in Roots |-> IF r = Default THEN {"lxc-version"} ELSE {"kvm", "lxc-version"}]}
MCStatBoot == [r \in Roots |-> IF r = Default THEN 10 ELSE 11]
MCUptimeBoot == [r \in Roots |-> IF r = Default THEN 20 ELSE 21]
=============================================================================
