# TLA+ models of xeth

These TLA+ modules model the xeth multiplexor as found in `src/`:
- the mux data plane of `src/xeth_mux.c`, and its lifecycle (init, deinit and the sideband task);
- the notifier bridge of `src/dkms/xeth_nb.c`;
- the sideband receive dispatcher of `src/dkms/xeth_sbrx.c`;
- the legacy VLAN encapsulation of `src/vlan.c`, over the device tables of `src/xeth.h`.

Every definition is translated from those sources, except where `PROJECT.json` marks it `spec_modelled` (code that is not in the tree). `PROJECT.json` maps each definition to the lines it models, and lists every run, mutant, finding and hazard.

## The system

- **Mux device** (`src/xeth_mux.c`). It owns the lower (physical) links and a 16-slot fan-out table, `priv->lower[]`. `xeth_mux_reload_lowers` rebuilds the table whenever a lower is added or removed.
  - `xeth_mux_xmit` picks a slot by `xeth_mux_lower_hash` and queues the frame to that lower.
- **Demux engine.** `xeth_mux_demux` is the rx_handler on every lower.
  - An untagged frame goes to the mux itself.
  - A tagged frame is classified by `xeth_mux_demux_vlan` to a proxy by XID: the outer VID, plus 4096 times the inner VID when an inner 802.1Q tag follows. A miss counts a frame error.
  - `xeth_mux_exception` replays a frame the daemon sent back through the same handler. It runs `eth_type_trans` first, which pulls the Ethernet header, and then `vlan_get_tag`, which reads its tag from the data after the pull.
- **Proxy registry.** The upper hash of proxies keyed by XID. Only its bucket helpers are under `src/`; insert, remove and lookup are not, so the models keep the registry as the set of XIDs that have a proxy.
- **Event bridge** (`src/dkms/xeth_nb.c`). Five notifiers turn kernel events into sideband messages:
  - fib: one fmn per namespace in `nb->fibs`;
  - inetaddr and inet6addr;
  - netdevice: the loopback REGISTER/UNREGISTER marks a namespace coming or going;
  - netevent.
- **Sideband rx** (`src/dkms/xeth_sbrx.c`). It dispatches daemon requests:
  - `DUMP_IFINFO` dumps the proxies, sends a break and starts the netdevice and inetaddr notifiers;
  - `DUMP_FIBINFO` starts every fib notifier, sends a break and starts netevent;
  - carrier, ethtool-stat, link-stat and speed go to a proxy.
- **Sideband rx handlers** (`xeth_sbrx_msg`). A message passes the length, sentinel and version checks, then is dispatched by kind to the proxy its XID names. Unknown kinds count `sbrx_invalid`.
- **Lifecycle.** `xeth_mux_init` sets up sbrx, allocates and registers the mux, and starts the sideband task. `xeth_mux_deinit` stops the task (`kthread_stop`), busy-waits on the `sb_task` flag, then under rtnl detaches the lowers, unregisters the proxies and the mux, and releases sbrx.
- **Legacy VLAN codec** (`src/vlan.c`, `src/xeth.h`). `xeth_vlan_tx` pushes an outer tag `(u16)priority << 13 | id` and queues the frame on the device's iflink. `xeth_vlan_rx` pops it again and forwards the frame to `to_xeth_nd(vid)`: `nds[ndi_by_id[vid]]`. `xeth_vlan_sb` does the same for a whole frame the daemon writes.
- **Kernel variants.** Before 5.5 (`fib_notifier_info_with_net`) a single global fib notifier hears every namespace and the event carries its net. From 5.5 one fib notifier is registered per namespace, and the net comes from `fmn->net`.

How the parts interact: the bridge and sbrx both change `nb->fibs` and the notifier flags. The daemon's order of requests decides what the bridge reports. The kernel's `pernet_ops_rwsem` keeps the netdevice notifier from being registered or unregistered while a namespace is being set up or cleaned up.

## Modules

| module | models | state | actions |
|---|---|---|---|
| `XethMux` | mux lowers, fan-out, xmit, demux, exception, counters | `lowers` (adjacency list), `rxh` (rx_handler per device), `lowerTbl` (`priv->lower[]`), `upper` (registered XIDs), `stats` (`priv->link.stats`), `noMem`, `ret`, `lastRx`, `txDev` | `AddLower`, `DelLower`, `ProxyAdd`, `ProxyDel`, `RxFrame`, `Exception`, `Xmit` |
| `MCXethMux` | three lowers (one of them busy), XIDs {1, 4097}, VID 1, PCP 5 | | |
| `XethNb` | event bridge plus both dump requests, for either kernel variant (`withNet`, chosen at boot from `Variant`) | `nsState` and `netList` (namespaces and `net_namespace_list`), `fibs` (`nb->fibs`), `notif` (notifier flag bits), `proxies`, `sbtx` (messages sent), `routes` (namespace of each route event), `req`, `withNet`, `stopped` (module stop: the calls made so far) | `NetCreate` (setup_net: loopback REGISTER), `NetList`, `NetUnlist`, `NetDestroy` (loopback UNREGISTER), `ProxyRegister`, `ProxyUnregister`, `RouteEvent`, `AddrEvent`, `NeighEvent`, `DumpIfinfo`, `DumpFibinfo`, and for module stop `StopRx`, `StopAllFib` (`xeth_nb_stop_all_fib`), `StopNb` (`xeth_nb_stop_##NB`) |
| `MCXethNb` | init_net plus two namespaces (`MCNet`) or one (`MCNet2`), one proxy XID | | |
| `XethSbrx` | `xeth_sbrx_msg` and its carrier, ethtool-stat, link-stat and speed handlers | `kind` (proxy kind per XID), `carrier`, `etStat`, `linkStat`, `speed`, `invalid` (`sbrx_invalid`), `oops` (NULL dereference), `ret`, `lastMsg`, `nMsg` | `Receive` (one message: header checks, dispatch), `ProxyAdd` (`xeth_proxy_setup`), `ProxyDel` |
| `MCXethSbrx` | two XIDs, kinds port and vlan, carrier flags as model values | | |
| `XethVlan` | `xeth_vlan_tx`, `xeth_vlan_rx`, `xeth_vlan_sb` over the `nds`/`iflinks` tables of `src/xeth.h` | `nds`, `iflinks`, `up`, `wire` (frames on the lowers), `delivered`, `txDropped`, `rxDropped`, `freed`, `uaf`, `sbRet`, `nIn` | `Register` (`xeth_priv_set_nd`), `Unregister` (`xeth_reset_nds`), `BindIflink`, `Tx`, `Rx`, `Sb`, `Arrive` (a frame from elsewhere) |
| `MCXethVlan` | two devices whose ids differ from their ndis, one iflink, priorities 0 and 13 | | |
| `XethMuxLife` | `xeth_mux_init`, `xeth_mux_deinit`, the `sb_task` flag ops, the sideband thread | `pc` (the module's progress), `ret`, `muxPtr` (the global `xeth_mux`: NULL, error, device or freed), `reg`, `sbrx`, `sb` (`priv->sb`), `task` (none, created, running, exited), `stopReq`, `flag` (`sb_task`), `lowers`, `uppers`, `uaf` | `MuxInit` (one action per outcome), `AddLower`, `DelLower`, `ProxyAdd`, `ProxyDel`, `DeinitBegin`, `StopReturns`, `SpinEnds`, `Teardown`, `TaskRun` (first run of the thread), `TaskExit` |
| `XethMuxLifeAbs` | the lifecycle as the spec (section 5) promises it | `dev`, `task`, `links` | `Create`, `Attach`, `Detach`, `TaskEnd`, `Release` |
| `MCXethMuxLife` | three lowers, two proxies, the init outcomes the code handles | | |

How the code becomes the model:

- Each action is one whole handler, including the calls it makes.
  - `AddLower` ends in `xeth_mux_reload_lowers`.
  - `DumpIfinfo` includes the REGISTER replay of `register_netdevice_notifier` (`ReplayNets`): each listed namespace's loopback, and the proxies in init_net.
  - `DumpFibinfo` is `xeth_nb_start_all_fib`, with its early return (`StartRest`).
  - `DumpIfinfo` registers the netdevice notifier, and `StopNb("netdevice")` unregisters it, only when no namespace is between `setup_net` and its `list_add`, or between its `list_del` and its loopback's unregister (`PernetOpsFree`). Both kernel calls take `pernet_ops_rwsem` for write, and `copy_net_ns` and `cleanup_net` hold it for read across those steps. `DumpFibinfo` takes no such lock, so it can run while a namespace is being set up.
- `XethMux.SkbOfException` is the skb that `xeth_mux_exception` hands to demux. `skb->protocol` is the outer ethertype, and `skb->data` is at the outer TCI. `vlan_get_tag` finds no accelerated tag and reads frame bytes 26..29 as a `vlan_ethhdr`. These bytes lie past the tags, in the payload. So `vlan_tci` is 0, or a payload word when the bytes before it happen to be a VLAN type (`PayloadTci`).
- Helpers that return several possible results model kernel calls that can fail.
  - `StartFib` returns the set of outcomes of `xeth_nb_start_fib`; registration may fail when `RegFail` is set.
- The fan-out table is the recursive operator `ReloadLowers`, which follows the C loop slot for slot.
- `XethSbrx.ProxyAdd` zeroes what a fresh device has zeroed: `alloc_netdev` clears the private area (ethtool stats, speed), and `xeth_proxy_setup` clears the link stats. The carrier is left to the driver's setup, which is not under `src/`, so it may be either value.
- `XethSbrx.Receive` is all of `xeth_sbrx_msg`. A message has a `form`: whole (`ok`), too short for a header, with a non-zero sentinel, with another version, or with a truncated payload. For a truncated payload the handler reads whatever follows in the buffer, so the XID and value are chosen freely (`Payloads`).
- `XethVlan` does the TCI arithmetic at 16 bits: `TxPcp` is `((prio % 2^16) * 2^13) % 2^16`, and `TxTci` ORs in the id with `Bitwise`. Frames carry their sender and priority as history fields, so the round trip can be stated.
- `XethMuxLife.MuxInit` is `xeth_mux_init` as one step. Nothing else runs before it returns, and the step ends in one of its five outcomes. `DeinitBegin`, `StopReturns` (the return of `kthread_stop`), `SpinEnds` and `Teardown` are the parts of `xeth_mux_deinit` between which other threads can act.
  - `kthread_run` only creates the thread (`task = "created"`). The thread sets `sb_task` itself when the scheduler first runs it (`TaskRun`).
  - `XethFlag`, `FlagSet` and `FlagClear` are `xeth_mux_flag`, `_set` and `_clear`, each a no-op without a priv.
  - The constant `EarlyRmmod` says whether `rmmod` may begin before that first run.

## Runs

| run | result | shows |
|---|---|---|
| `mux_dataplane` | pass | Lowers come and go, proxies are added and removed, frames are received, replayed and transmitted. Every received frame reaches the XID its tags name (`DemuxClassifies`). Every frame is counted exactly once (`Accounting`). Every lower keeps a fan-out slot (`TableCoversLowers`). |
| `mux_exception` | violation | A frame with one 802.1Q tag of VID v, replayed by `xeth_mux_exception`, is classified to XID 4096·v, or to an XID built from payload bytes, not to v (`ExceptionLikeRx`). With proxy 1 registered, VID 1 is counted as a frame error. |
| `mux_stale_slot` | violation | After the last lower is deleted, every fan-out slot still names it. `xeth_mux_xmit` queues to that device, where spec 4.2 says to drop the frame and count a `tx_error` (`NoLowerIsTxError`). |
| `nb_kernels` | pass | Both kernel variants in one run. Each route event is reported once, under its own namespace (`RouteReportedOnce`). No fmn outlives its namespace (`NoStaleFib`; before 5.5 only init_net has one). Under 5.5 and later the module is also stopped while namespaces come and go between the stop calls: once every stop function has run, no fib notifier is left and no event queues a message (`QuietAfterStop`). This rests on the `list_empty` test of `xeth_nb_start_new_fib`: without it, a namespace created after `xeth_nb_stop_all_fib` gets a notifier nothing unregisters. |
| `nb_fib_race` | violation | The netdevice notifier is on. A namespace's loopback registers while `nb->fibs` is still empty, so `xeth_nb_start_new_fib` skips it. The namespace is then listed only after the first `DUMP_FIBINFO` has walked `net_namespace_list`, and it is never subscribed (`FibCovered`). |
| `nb_startall` | violation | A repeated `DUMP_FIBINFO` meant to resynchronise stops at the first namespace that already has an fmn: `xeth_nb_start_new_fib` returns -EBUSY and `xeth_nb_start_all_fib` returns with it. A later namespace that missed its fmn stays without one (`DumpFibStartsAll`). |
| `sbrx_dispatch` | pass | Messages of every kind, with every header defect, interleave with proxies of two kinds being created and deleted. While an XID names a proxy that is not a port, no step changes its carrier, ethtool stats or speed (`NonPortUntouched`). This holds across the XID being deleted and re-created with other kinds. |
| `sbrx_link_stat_null` | violation | A link-stat message for an XID with no proxy dereferences NULL (`xeth_sbrx.c:42`). |
| `vlan_roundtrip` | pass | Devices register and unregister, iflinks come and go, and frames are sent (one with a priority past 3 bits), echoed, received from elsewhere or written by the daemon. A frame echoed back to a registered sender returns to that sender, with `priority mod 8` and its inner tag, or is counted as dropped there (`EchoReturnsToSender`). Every delivered frame has a 3-bit priority (`TypeOK`). |
| `life_deinit` | pass | Init succeeds, or fails in sbrx setup or task start. Lowers and proxies attach while deinit waits for the task. Deinit always returns (`DeinitCompletes`) and releases everything (`ResourcesReleased`). The lifecycle refines `XethMuxLifeAbs` (`AbsSpec`): the mux is released only after the task has stopped. |
| `life_register_fail` | violation | After `register_netdevice` fails, `xeth_mux` still points at the kfree'd device, and deinit reads it. |
| `life_sb_unstarted` | violation | `rmmod` right after `insmod`, before the sideband thread has first run: deinit reads `sb_task` still clear, skips `kthread_stop`, and frees the mux while the thread is still created (`ResourcesReleased`, `xeth_mux.c:445`). |

Every property of a passing run has a mutant in `PROJECT.json`: a plausible bug in the mapped code, defined in the module, that TLC catches. Examples:
- a reload loop that never advances `n`;
- the XID computed without the VID mask;
- a carrier set from the raw flag byte;
- the priority shifted by 12 instead of 13;
- `to_xeth_nd` indexing `nds` by id instead of through `ndi_by_id`;
- `kthread_stop` left out of deinit (the spin never ends);
- a non-blocking stop, so the mux is released while the task still runs.

**Further configurations.** The project is limited to twelve runs, so these configurations are kept beside the modules but are not in `PROJECT.json`. Each was run and ends in the violation described. Their hazards name them.

| cfg | property | what TLC finds |
|---|---|---|
| `MCXethNb_replay.cfg` | `DumpIfinfoOnce` | The first `DUMP_IFINFO` repeats every proxy's ifinfo after the break. |
| `MCXethNb_unordered.cfg` | `NoStaleFib` | `DUMP_FIBINFO` before `DUMP_IFINFO` leaves a destroyed namespace's fmn registered. |
| `MCXethMux_fanout.cfg` | `FanOutReachesEveryLower` | With three lowers, the third never transmits: the hash is `tci & 1`. |
| `MCXethNb_inet6.cfg` | `AddrSubscribed` | The IPv6 address notifier is never started. |
| `MCXethNb_stoporder.cfg` | `NoStaleFib` | Module stop calling `xeth_nb_stop_netdevice` before `xeth_nb_stop_all_fib`: a namespace destroyed between the two keeps its fmn. |
| `MCXethSbrx_uncounted.cfg` | `UnresolvedCounted` | A speed or ethtool-stat message for a non-port XID is not counted in `sbrx_invalid`, although the spec (4.3) says it is. |
| `MCXethSbrx_trunc.cfg` | `OnlyAddressedProxyChanges` | A carrier message with a truncated payload changes another port's carrier. |
| `MCXethVlan_wideid.cfg` | `EchoReturnsToSender` | A device with id 4097 tags its frames with VID 1. Its echoes go to the device with id 1, or are freed. |
| `MCXethVlan_uaf.cfg` | `NoUseAfterFree` | With a debug macro that evaluates its arguments, an unknown-VID frame is read after `kfree_skb`. |
| `MCXethMuxLife_alloc.cfg` | `ResourcesReleased` | After `alloc_netdev_mqs` fails, deinit returns at once and `xeth_sbrx_deinit` never runs. |

## Bounds, and why they are enough

**Mux.**

| bound | value | why |
|---|---|---|
| lowers | 3 | One more than the two slots the hash can reach. |
| busy lowers | 1 | Exercises the -EBUSY path. |
| XIDs | 1 and 4097 | Enough to tell a single-tag XID from its double-tag widening. |
| VID, PCP | 1 each, PCP 5 | A non-zero priority checks the mask. |
| frames | `MaxRx = 2` received; `MaxTx = 1` sent in the pass run, 2 in the violation runs | One transmitted frame already reaches every slot the hash can pick. |
| payload words | 0 and the tags of VID 1, PCP 5 | What `vlan_get_tag` may read from the payload of an exception frame: nothing, or something that looks like a tag. |

**Bridge.**

| bound | value | why |
|---|---|---|
| namespaces | 2 in `nb_kernels` (`MCNet2`), 3 elsewhere | The pass run needs init_net plus one namespace to create, list, subscribe, destroy and recreate, and every mutant of its properties shows with that namespace. The violation cfgs use init_net plus two, since the early return needs one subscribed namespace ahead of an unsubscribed one. |
| proxies | 1 | |
| events (`MaxEv`) | 1 | One route, address or neighbour event is enough: each property is about a single event's messages, and each notifier is stateless between events. |
| dump requests (`MaxDump`) | 3 | Enough for ifinfo, fibinfo, then a repeat. |
| `MaxLife` | 3 | Namespace creations plus proxy registrations. Enough to destroy and recreate a namespace. |
| `Teardown` | `{FALSE}` | Module stop is modelled under 5.5 and later, where each namespace has its own fmn. Before 5.5 only init_net has one, and it is never destroyed. |
| `FibStopFirst` | TRUE; FALSE in `_stoporder` | The caller of the stop functions is not under `src/`, so both orders are checked. |

`nb_kernels` reaches about 1.4 million states in about half a minute. With three namespaces and module stop, the run grows beyond five minutes even with `n1` and `n2` declared symmetric. `_stoporder` keeps three namespaces and declares `n1` and `n2` symmetric (`MCSymmetry`). This is sound because the code names only init_net and the cfg checks only an invariant.

**Module stop.** `StopOrder` fixes the order of the address and neighbour stops. Each of them only clears its own flag, so their order changes nothing.

**Sideband rx.**

| bound | value | why |
|---|---|---|
| XIDs | 2 | A message for one proxy can be seen to reach another. |
| proxy kinds | port, vlan | A port, and a proxy that is not a port. |
| values | 1 | Any non-zero value tells "written" from "reset". |
| messages (`MaxMsg`) | 3 | Enough for a write, a delete and re-creation, then another write. |

**Legacy VLAN.**

| bound | value | why |
|---|---|---|
| devices | 2, ids 1 and 2, ndis 1 and 0 | The id differs from the ndi, so indexing `nds` by the wrong one is caught. |
| priorities | 0 and 13 | 13 does not fit in the 3-bit PCP, and its low three bits (5) set the top PCP bit, so a wrong shift shows. |
| `NIds` | 3; 4098 in `_wideid` | 4098 lets an id have more than 12 bits. |
| frames (`MaxIn`) | 3 | Sent, arriving or written frames together: one echo for each device plus one more. |

**Lifecycle.** Three lowers, two proxies, and the init outcomes. Lowers and proxies can attach while deinit waits, so their count does not change which steps are enabled. The bound is kept small only to keep the state space readable. The pass run sets `EarlyRmmod = FALSE`, so `rmmod` waits for the thread's first run; `life_sb_unstarted` sets it TRUE.

Every violation is found within these bounds, in 3 to 8 steps. Each pass run finishes in under about two minutes.

## Fairness

The mux, bridge, sbrx and VLAN models assume no fairness. Every action in them is driven by the environment: frames, the kernel's events, the daemon's messages. The code gives no guarantee that any of them ever happens.

`XethMuxLife` assumes weak fairness of `StopReturns`, `SpinEnds`, `Teardown`, `TaskRun` and `TaskExit`. Once `rmmod` has entered `xeth_mux_deinit`, its thread runs to completion unless it blocks. After `kthread_stop` wakes the sideband task, the scheduler eventually runs that task to its exit. A created thread is likewise eventually run once (`TaskRun`). Nothing is assumed about init, or about lowers and proxies being attached.

Under this fairness, `DeinitCompletes` holds. Without `kthread_stop` (the mutant `DeinitBeginNoStop`), the spin on `sb_task` never ends.

The bridge, sbrx and lifecycle runs set `CHECK_DEADLOCK FALSE`. In each of them the system really stops:
- the bridge once its bounded events are used up;
- sbrx after its last message, or after an oops kills the receive task;
- the lifecycle once the module is unloaded.

The mux and VLAN runs check deadlock.

## Refinement

`XethMuxLifeAbs` states what the lifecycle promises:
- the mux is created once;
- links attach only while it exists;
- it is released, with its links, only when no sideband task runs.

`XethMuxLife` maps onto it as follows:
- `dev` is `reg`;
- the abstract `task` is "running" exactly when the sideband task runs;
- `links` is the set of lowers together with the proxies.

The `life_deinit` run checks `AbsSpec`. A deinit that stops the task without waiting for it (`DeinitBeginNoWait`) releases the device while the task still runs, and TLC reports that step. A created but not yet run thread maps to the abstract "running".

## Abstractions and what is not modelled

- **Handlers are atomic.**
  - Locks are not modelled, and neither are the splits inside xmit (slot read before the lock) and demux (RCU lookup, then forward). These are listed as hazards.
  - `nb->fibs` is not protected by a lock of its own. Its list operations are atomic in the model, so a corruption by concurrent `list_add_tail` calls is not explored.
  - The one kernel lock that is modelled is `pernet_ops_rwsem`, because it decides which orders of namespace set-up and notifier registration are possible (`PernetOpsFree`).
- **Frames.** A frame is its tags. Payload, MAC addresses and byte counts are left out.
- **Messages.** A message is its kind, namespace, XID and route event number. The route and address payloads are left out.
- **Fib dump.** `register_fib_notifier` dumps the existing routes to the new notifier. The model has no route tables, so that dump is not modelled.
- **Sideband task.** `xeth_sb_start` and the task body are not under `src/`. The model follows the spec: the task clears `sb_task` and exits when asked to stop.
  - The thread sets `sb_task` on its first run (`TaskRun`). `life_sb_unstarted` shows deinit skipping `kthread_stop` when it runs before that.
- **Not modelled.**
  - The sideband tx queue and connection, and the registry's insert, remove and lookup, are not under `src/`. Only the `xeth_sbtxb` record, the counter helpers and the bucket hash `xeth_mux_upper_head_hashed` are. A model of the queue or the RCU buckets would be built from the spec alone and would check the spec against itself, so they are left out. Their hazards say so.
  - The daemon's side of the protocol, and the bytes of each message.
  - `xeth_mux_add_lower` sleeping under a spinlock (the hazard at `xeth_mux.c:156`): a kernel context rule, out of TLC's reach.
  - Module stop itself is not under `src/`. `XethNb` assumes that the sideband rx task is stopped before the stop functions run (spec 5: the receive task is stopped first). Otherwise a dump request could restart a subscription.
  - `src/rtnl.h`: netlink message builders, pure formatting.
- **Reporting only, not modelled.** Counters, flag names, ethtool and sysfs.

## Plan for later work

1. Split xmit and demux at their lock and RCU boundaries.
2. Compose `XethSbrx` with the lifecycle: messages arriving while proxies are unregistered in teardown.
3. Split `xeth_nb_start_fib` at its list walk and `list_add_tail`, against the netdevice notifier, to explore the unlocked `nb->fibs` race.
