SPECIFICATION MCSpec
CONSTANTS
  PM = PM
  Driver = Driver
  User = {u1, u2}
  Ticks <- OneThree
  DriverTicks <- Two
  Intervals <- NoneOrTwo
  Delay = 2
  MaxLate = 1
  NEVER = 9
INVARIANTS AlarmCovers TimersOfTheLiving
PROPERTY AlarmsRing
