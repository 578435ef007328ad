---------------------------- MODULE DeviceDrivers ----------------------------
(***************************************************************************)
(* The drivers around the streams: the HDMI receiver, the capture format,  *)
(* audio capture, the transport stream FIFO, the I2C adapter and the remote*)
(* control. In the code they share no state but the registers of chips of  *)
(* their own (the receiver's calls end when the adapter's do), so that the *)
(* states of all together are tuples of states of each. A behaviour here   *)
(* works one of them, which one is chosen at the start, and leaves the     *)
(* others alone; every property is about one of them.                      *)
(***************************************************************************)
EXTENDS HdmiReceiver, CaptureConfig, AlsaCapture, TsOutput, I2cTransfer,
        RemoteControl

VARIABLE inUse  \* the driver this behaviour is about

Drivers == {"receiver", "config", "audio", "tsout", "i2c", "remote"}

Init ==
  /\ inUse \in Drivers
  /\ RxInit /\ CfgInit /\ AlsaInit /\ TsInit /\ I2cInit /\ IrInit
  /\ inUse # "i2c" => i2c.mode = "polling"
  /\ inUse # "config" => stream.receiver = "TDA19978"

Next ==
  /\ UNCHANGED inUse
  /\ \/ /\ inUse = "receiver" /\ RxNext
        /\ UNCHANGED <<cfgVars, alsaVars, tsVars, i2cVars, irVars>>
     \/ /\ inUse = "config" /\ CfgNext
        /\ UNCHANGED <<rxVars, alsaVars, tsVars, i2cVars, irVars>>
     \/ /\ inUse = "audio" /\ AlsaNext
        /\ UNCHANGED <<rxVars, cfgVars, tsVars, i2cVars, irVars>>
     \/ /\ inUse = "tsout" /\ TsNext
        /\ UNCHANGED <<rxVars, cfgVars, alsaVars, i2cVars, irVars>>
     \/ /\ inUse = "i2c" /\ I2cNext
        /\ UNCHANGED <<rxVars, cfgVars, alsaVars, tsVars, irVars>>
     \/ /\ inUse = "remote" /\ IrNext
        /\ UNCHANGED <<rxVars, cfgVars, alsaVars, tsVars, i2cVars>>

driverVars == <<inUse, rxVars, cfgVars, alsaVars, tsVars, i2cVars, irVars>>

\* A receiver that is not in use has no step to take.
Spec == Init /\ [][Next]_driverVars /\ RxFairness

\* Every driver's state keeps its type.
TypeOK ==
  /\ inUse \in Drivers
  /\ RxTypeOK /\ CfgTypeOK /\ AlsaTypeOK /\ TsTypeOK /\ I2cTypeOK /\ IrTypeOK

=============================================================================
