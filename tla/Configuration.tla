---------------------------- MODULE Configuration ----------------------------
(***************************************************************************)
(* The configuration file: System::parseArgs()                             *)
(* (src/src/utils/system.cpp), which reads the options that choose between *)
(* a fake and a real device, and the functions that read what the device   *)
(* itself needs.  Of the file only the options and the log levels are      *)
(* kept; of a list of pins, whether it is there and how long it is.        *)
(***************************************************************************)
Option == {"use_fake_trajectory", "use_fake_batteries", "use_fake_batteries_fail",
           "use_fake_temperature", "use_fake_temperature_fail",
           "use_fake_ambient_pressure", "use_fake_ambient_pressure_fail",
           "use_fake_brake_pressure", "use_fake_brake_pressure_fail"}

(* A file is read once, when the program starts.                           *)
File == [readable : BOOLEAN,      \* and JSON with a "system" object
         logLevels : BOOLEAN,     \* all levels that it names exist
         options : UNION {[given -> BOOLEAN] : given \in SUBSET Option}]

(* parseArgs() exits.                                                      *)
Refuses(file) == ~file.readable \/ ~file.logLevels

(* Nothing initialises a Config: an option whose own value is not stored   *)
(* anywhere keeps what its byte held before.                               *)
Value(options, o, garbage) ==
  CASE o = "use_fake_brake_pressure_fail" /\ o \in DOMAIN options -> garbage
    [] o = "use_fake_ambient_pressure_fail" /\ "use_fake_brake_pressure_fail" \in DOMAIN options
         -> options["use_fake_brake_pressure_fail"]
    [] OTHER -> o \in DOMAIN options /\ options[o]

parseArgs(file) ==
  IF Refuses(file) THEN {}
  ELSE {[o \in Option |-> Value(file.options, o, garbage)] : garbage \in BOOLEAN}

-----------------------------------------------------------------------------
(* What a device can turn out to be: a "fake" that works or "fails", one   *)
(* that is "real", or none because something that has to be in the file is *)
(* "missing" there; a list of pins can be too "short" or too "long".       *)

BmsFile              == {"fake", "missing"}
FakeTrajectoryFile   == {"fake", "missing"}
FakeImuFile          == {"fake", "fails", "missing"}
ImuPinFile           == {"real", "missing", "short", "long"}
TemperaturePinFile   == {"real", "missing", "short", "long"}
AmbientPressureFile  == {"real", "missing"}
BrakePressurePinFile == {"real", "missing", "short", "long"}

Simulated(config, option, failing, otherwise) ==
  IF config[failing] THEN {"fails"} ELSE IF config[option] THEN {"fake"} ELSE otherwise

(* sensors::Main asks for a fake that fails first ...                      *)
SensorKinds(d, config) ==
  CASE d = "bms" -> BmsFile
    [] d = "imu" -> IF config["use_fake_trajectory"]
                    THEN (FakeTrajectoryFile \ {"fake"}) \union FakeImuFile
                    ELSE ImuPinFile
    [] d = "temperature" ->
         Simulated(config, "use_fake_temperature", "use_fake_temperature_fail", TemperaturePinFile)
    [] d = "ambient" ->
         Simulated(config, "use_fake_ambient_pressure", "use_fake_ambient_pressure_fail",
                   AmbientPressureFile)
    [] d = "brake" ->
         Simulated(config, "use_fake_brake_pressure", "use_fake_brake_pressure_fail",
                   BrakePressurePinFile)

(* ... and BmsManager for one that works.                                  *)
BatteryKind(config) ==
  IF config["use_fake_batteries"] THEN "fake"
  ELSE IF config["use_fake_batteries_fail"] THEN "fails" ELSE "real"

-----------------------------------------------------------------------------
(* Every configuration that the program can run with.                      *)
Config == UNION {parseArgs(file) : file \in File}
=============================================================================
