---------------------------- MODULE MCSideBySide ----------------------------
(***************************************************************************)
(* The components that are checked for safety only, for TLC: the trading   *)
(* engine with its feed and its signal router, the risk ledger alone and   *)
(* under the pre-flight gate, the offline side of the trading system, the  *)
(* admin API's registry, rate limiter, accounts and event streams, and the *)
(* two model storages.                                                     *)
(* They share no variable, so one run checks them side by side: every      *)
(* behaviour moves one of them, chosen at the start, and the others rest   *)
(* in one initial state.                                                   *)
(***************************************************************************)
EXTENDS TradingEngine, FeedSession, SignalRouter, PreflightGate, SwapSimulator,
        DataSplits, TenantRegistry, RateLimiter, DashboardAccounts,
        EventStream, LocalStorage,
        MCS3Storage

VARIABLE part

Parts == {"engine", "feed", "router", "ledger", "gate", "simulator", "folds",
          "registry", "limiter", "accounts", "events", "local",
          "storage"}

judgeVars == <<sessionPc, breakerVars, date, logVars>>
tradingVars == <<vars, feedVars, routerVars, gateVars, simVars, foldVars>>
platformVars == <<registryVars, limiterVars, accountVars, streamVars, localVars,
                  storageVars>>
sideVars == <<part, tradingVars, platformVars>>

SideInit ==
  /\ part \in Parts
  /\ Init /\ (part # "engine" => mode = "REPLAY")
  /\ FeedInit
  /\ RouterInit
  /\ part # "router" => ~hasRetrain /\ market = CHOOSE m \in MarketRegimes : TRUE
  /\ GateInit
  /\ SimInit /\ (part # "simulator" => cooldownMode = "static" /\ calibrator = "none")
  /\ FoldInit /\ (part # "folds" => samples = 0 /\ folds = 5)
  /\ RegistryInit /\ (part # "registry" => backend = "memory")
  /\ LimiterInit /\ (part # "limiter" => time = 0)
  /\ AccountsInit /\ (part # "accounts" => userBackend = "memory")
  /\ StreamsInit
  /\ LocalInit
  /\ StorageInit

\* What the named part of the trading side does, the rest of that side being still.
TradingNext ==
  \/ /\ part = "engine" /\ Next
     /\ UNCHANGED <<feedVars, routerVars, gateVars, simVars, foldVars>>
  \/ /\ part = "feed" /\ FeedNext
     /\ UNCHANGED <<vars, routerVars, gateVars, simVars, foldVars>>
  \/ /\ part = "router" /\ RouterNext
     /\ UNCHANGED <<vars, feedVars, gateVars, simVars, foldVars>>
  \/ /\ part = "ledger" /\ LedgerNext
     /\ UNCHANGED <<vars, feedVars, routerVars, judgeVars, simVars, foldVars>>
  \/ /\ part = "gate" /\ GateNext
     /\ UNCHANGED <<vars, feedVars, routerVars, simVars, foldVars>>
  \/ /\ part = "simulator" /\ SimNext
     /\ UNCHANGED <<vars, feedVars, routerVars, gateVars, foldVars>>
  \/ /\ part = "folds" /\ FoldNext
     /\ UNCHANGED <<vars, feedVars, routerVars, gateVars, simVars>>

PlatformNext ==
  \/ /\ part = "registry" /\ RegistryNext
     /\ UNCHANGED <<limiterVars, accountVars, streamVars, localVars, storageVars>>
  \/ /\ part = "limiter" /\ LimiterNext
     /\ UNCHANGED <<registryVars, accountVars, streamVars, localVars, storageVars>>
  \/ /\ part = "accounts" /\ AccountsNext
     /\ UNCHANGED <<registryVars, limiterVars, streamVars, localVars, storageVars>>
  \/ /\ part = "events" /\ StreamsNext
     /\ UNCHANGED <<registryVars, limiterVars, accountVars, localVars, storageVars>>
  \/ /\ part = "local" /\ LocalNext
     /\ UNCHANGED <<registryVars, limiterVars, accountVars, streamVars, storageVars>>
  \/ /\ part = "storage" /\ StorageNext /\ OneReads
     /\ UNCHANGED <<registryVars, limiterVars, accountVars, streamVars, localVars>>

\* Only the engine and the storage may not stop: the others end at their bounds.
SideNext ==
  \/ TradingNext /\ UNCHANGED <<part, platformVars>>
  \/ PlatformNext /\ UNCHANGED <<part, tradingVars>>
  \/ part \notin {"engine", "storage"} /\ UNCHANGED sideVars

SideSpec == SideInit /\ [][SideNext]_sideVars
=============================================================================
