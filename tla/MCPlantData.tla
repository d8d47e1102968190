------------------------------ MODULE MCPlantData ------------------------------
(***************************************************************************)
(* A product with three routing steps (and an id for one more) and one     *)
(* with a single step, two work centers (one to be created), two machines  *)
(* (one fixed by a step), two calendars (one with two shifts) and an order *)
(* and planned work to come.  Each scene confines a behaviour to the       *)
(* operations of one concern.                                              *)
(***************************************************************************)
EXTENDS PlantData

CONSTANTS chair, desk, top, a, b, c, d, saw, paint, m1, m2, day, night, s1, s2, s3, early, late, o1, e1, tenant, none

MCIds == {chair, desk, top, a, b, c, d, saw, paint, m1, m2, day, night, s1, s2, s3, o1, e1, tenant}
MCTable ==
    [i \in MCIds |->
        CASE i \in {chair, desk}     -> "Product"
          [] i \in {a, b, c, d, top} -> "ProductOperation"
          [] i \in {saw, paint}     -> "WorkCenter"
          [] i \in {m1, m2}         -> "Machine"
          [] i \in {day, night}     -> "ShiftCalendar"
          [] i \in {s1, s2, s3}     -> "Shift"
          [] i = tenant             -> "Tenant"
          [] i = o1                 -> "Order"
          [] i = e1                 -> "ScheduleEntry"]

MCRows ==
    [i \in Ids |->
        CASE i \in {chair, desk} -> [active |-> TRUE]
          [] i = a      -> [product |-> chair, center |-> saw, machine |-> none, seq |-> 10]
          [] i = b      -> [product |-> chair, center |-> saw, machine |-> m1, seq |-> 20]
          [] i = c      -> [product |-> chair, center |-> saw, machine |-> none, seq |-> 30]
          [] i = top    -> [product |-> desk, center |-> saw, machine |-> none, seq |-> 10]
          [] i = saw    -> [active |-> TRUE]
          [] i = m1     -> [center |-> saw, calendar |-> day, active |-> TRUE]
          [] i = day    -> [active |-> TRUE]
          [] i = s1     -> [calendar |-> day, hours |-> early]
          [] i = s2     -> [calendar |-> day, hours |-> late]
          [] i = tenant -> [calendar |-> day]
          [] OTHER      -> NoRow]

MCClashes == {{early}, {late}}

MCScenes ==
    {{"addStep", "removeStep", "moveStep"},
     {"addStep", "removeStep", "createProduct", "setProductActive", "deleteProduct", "placeOrder"},
     {"addStep", "updateStep", "createMachine", "updateMachine", "setMachineStatus", "deleteMachine", "plan"},
     {"addStep", "createCenter", "setCenterActive", "deleteCenter", "updateMachine", "plan"},
     {"createCalendar", "setCalendarActive", "setDefaultCalendar", "saveSettings", "deleteCalendar", "createMachine"},
     {"createCalendar", "addShift", "updateShift", "deleteShift", "deleteCalendar", "setDefaultCalendar"}}
================================================================================
