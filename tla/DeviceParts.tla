----------------------------- MODULE DeviceParts -----------------------------
(* What the device manager consists of: DeviceServices, its pairing and     *)
(* discovery services, and DeviceCache.  They share no variable.            *)
EXTENDS DeviceServices

CONSTANTS CacheDevices, MaxDevices, PairedAge

VARIABLES
    devices, connected, cachePaired, age, cacheRunning, cleaning, stoppedOnce, reader, pending

cacheVars ==
    <<devices, connected, cachePaired, age, cacheRunning, cleaning, stoppedOnce, reader, pending>>

Cache == INSTANCE DeviceCache WITH
    Devices <- CacheDevices, paired <- cachePaired, running <- cacheRunning

ASSUME CacheAssumed == Cache!CacheAssumption

\* DeviceCache: a device marked as connected is in the cache (manager.go:248, 278, 382).
ConnectedIsCached == Cache!ConnectedIsCached

\* DeviceCache: the cache grows beyond its limit only if every device in it is
\* connected or paired (manager.go:231).
GrowsOnlyIfProtected == Cache!GrowsOnlyIfProtected
=============================================================================
