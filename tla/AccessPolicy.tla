---------------------------- MODULE AccessPolicy ----------------------------
(***************************************************************************)
(* Who may do what, fog/policy/access_policy.py: the two tables and the    *)
(* three questions asked of them.                                          *)
(***************************************************************************)
Meters == {"temperature_sensor", "pressure_sensor", "smart_meter"}
Drives == {"valve_controller", "motor_controller"}
DeviceTypes == Meters \cup Drives \cup {"camera", "plc"}

Roles == {"sensor", "monitor", "actuator", "controller"}
Readers == {"sensor", "monitor", "controller"}

\* The operations of a resource, each with the roles that may perform it.
POLICY_TABLE == [resource \in DeviceTypes |->
  CASE resource \in Meters -> [read  |-> Readers, write |-> {"sensor"},
                               stop  |-> {"controller"}]
    [] resource \in Drives -> [read  |-> Readers,
                               write |-> {"actuator", "controller"},
                               stop  |-> {"actuator", "controller"}]
    [] resource = "camera" -> [read  |-> Readers, stream |-> {"monitor"},
                               stop  |-> {"controller"}]
    [] resource = "plc"    -> [read  |-> Readers, write |-> {"controller"},
                               stop  |-> {"controller"}]]

Operations == UNION {DOMAIN POLICY_TABLE[resource] : resource \in DeviceTypes}

ROLES_FOR_TYPE == [type \in DeviceTypes |->
  CASE type \in Meters -> {"sensor"}
    [] type \in Drives -> {"actuator"}
    [] type = "camera" -> {"monitor", "sensor"}
    [] type = "plc"    -> {"controller"}]

PROVISIONAL_OPERATIONS == {"read", "write"}

check_policy(resource, operation, role) ==
  /\ operation \in DOMAIN POLICY_TABLE[resource]
  /\ role \in POLICY_TABLE[resource][operation]

role_valid_for_type(type, role) == role \in ROLES_FOR_TYPE[type]

provisional_allowed(type, resource, operation) ==
  resource = type /\ operation \in PROVISIONAL_OPERATIONS
=============================================================================
